---- MODULE Spec2Model ----
(***************************************************************************)
(* A model of gl_pipelines: the GPU state cache (GlCache, cache_impl.rs),  *)
(* the buffer objects that use its scoped store/bind/restore pattern       *)
(* (buffer_impl.rs), and the Context command layer (lib.rs).               *)
(*                                                                         *)
(* Handles are glow's NonZeroU32 names; Option<handle> is the name or 0    *)
(* (None).  Every cache method is an operator from a call state            *)
(*   st = [cache, calls, binds, slots, uploads, result]                    *)
(* to the call state after it: cache is the GlCache, calls the native      *)
(* driver calls issued so far by the running operation, binds the          *)
(* bind_buffer invocations made so far by it, result "ok" or "panic".      *)
(***************************************************************************)
EXTENDS Integers, Sequences, FiniteSets, TLC

VARIABLES
    cache,      \* Context.cache : GlCache
    gl,         \* the driver: live buffer/texture/framebuffer names, bound framebuffer
    buffers,    \* the Buffer objects the caller holds
    textures,   \* the Texture objects the caller holds
    shaders,    \* Context.shaders : Vec<ShaderInternal>
    pipelines,  \* Context.pipelines : Vec<PipelineInternal>
    passes,     \* Context.passes : Vec<RenderPassInternal>
    calls,      \* native calls issued by the last operation, in order
    oplog,      \* what the last operation did: bind_buffer calls, slots, uploads
    last,       \* the last operation: its name, target, argument, outcome
    input,      \* the slices and structs the last operation was called with
    hist,       \* history of the cache-level calls (SpecCache)
    ghost,      \* history of the Context-level calls
    loop,       \* start_main_loop: its position, the OS event queue, the handler calls
    glstate,    \* the driver's context state: bound buffers, program, capabilities
    held        \* the Bindings values the caller holds

vars == <<cache, gl, buffers, textures, shaders, pipelines, passes, calls, oplog, last, input,
          hist, ghost, loop, glstate, held>>

----------------------------------------------------------------------------
(* Program constants *)

MAX_VERTEX_ATTRIBUTES == 16
MAX_SHADERSTAGE_IMAGES == 12

(* Bounds of the model *)
MaxBuffers == 2      \* native buffer names are 1..MaxBuffers
MaxTextures == 1     \* native texture names are 1..MaxTextures
MaxShaders == 1      \* length of the shader table
MaxPipelines == 1    \* length of the pipeline table

None == 0
BufferNames == 1..MaxBuffers
TextureNames == 1..MaxTextures
OptBuffer == {None} \cup BufferNames
OptTexture == {None} \cup TextureNames

ARRAY_BUFFER == "ARRAY_BUFFER"
ELEMENT_ARRAY_BUFFER == "ELEMENT_ARRAY_BUFFER"
Targets == {ARRAY_BUFFER, ELEMENT_ARRAY_BUFFER}

IndexTypes == {"Byte", "Short", "Int"}
NoIndexType == "None"
OptIndexType == {NoIndexType} \cup IndexTypes

\* IndexType::size
IndexTypeSize(index_type) ==
    CASE index_type = "Byte" -> 1
      [] index_type = "Short" -> 2
      [] index_type = "Int" -> 4

\* IndexType::for_type::<T>() by size_of::<T>(); any other size panics
IndexTypeForSize(size) ==
    CASE size = 1 -> "Byte"
      [] size = 2 -> "Short"
      [] size = 4 -> "Int"
      [] OTHER -> "panic"

\* gl_buffer_target
gl_buffer_target(buffer_type) ==
    IF buffer_type = "VertexBuffer" THEN ARRAY_BUFFER ELSE ELEMENT_ARRAY_BUFFER

DefaultFramebuffer == 0

----------------------------------------------------------------------------
(* GlCache *)

\* The cache built by Context::new_impl
NewCache ==
    [ stored_index_buffer  |-> None,
      stored_index_type    |-> NoIndexType,
      stored_vertex_buffer |-> None,
      stored_texture       |-> None,
      index_buffer         |-> None,
      index_type           |-> NoIndexType,
      vertex_buffer        |-> None,
      textures             |-> [ix \in 0..(MAX_SHADERSTAGE_IMAGES - 1) |-> None],
      cur_pipeline         |-> None,
      attributes           |-> [ix \in 0..(MAX_VERTEX_ATTRIBUTES - 1) |-> <<>>],
      color_blend          |-> <<>>,
      alpha_blend          |-> <<>>,
      stencil              |-> <<>>,
      color_write          |-> <<TRUE, TRUE, TRUE, TRUE>>,
      cull_face            |-> "Nothing" ]

Call(f, target, arg) == <<f, target, arg>>

\* The call state at the start of an operation; slots and uploads are the
\* decisions apply_bindings took per attribute slot and the uploads
\* apply_uniforms issued, in order.
Begin(c) ==
    [ cache |-> c, calls |-> <<>>, binds |-> <<>>, slots |-> <<>>,
      uploads |-> <<>>, result |-> "ok" ]

\* The cached bound handle of a buffer target
BoundHandle(c, target) ==
    IF target = ARRAY_BUFFER THEN c.vertex_buffer ELSE c.index_buffer

\* bind_buffer as written with the handle comparison dropped
bind_buffer_always(st, target, buffer, index_type) ==
    LET log == [target |-> target, h |-> buffer, native |-> TRUE]
        s1 == [st EXCEPT !.calls = Append(@, Call("bind_buffer", target, buffer)),
                         !.binds = Append(@, log)]
    IN  IF target = ARRAY_BUFFER
        THEN [s1 EXCEPT !.cache.vertex_buffer = buffer]
        ELSE [s1 EXCEPT !.cache.index_buffer = buffer,
                        !.cache.index_type = index_type]

\* bind_buffer storing the index width only with a new handle
bind_buffer_width_on_change(st, target, buffer, index_type) ==
    IF target = ARRAY_BUFFER
    THEN IF st.cache.vertex_buffer # buffer
         THEN [st EXCEPT !.cache.vertex_buffer = buffer,
                         !.calls = Append(@, Call("bind_buffer", target, buffer)),
                         !.binds = Append(@, [target |-> target, h |-> buffer,
                                              native |-> TRUE])]
         ELSE [st EXCEPT !.binds = Append(@, [target |-> target, h |-> buffer,
                                              native |-> FALSE])]
    ELSE IF st.cache.index_buffer # buffer
         THEN [st EXCEPT !.cache.index_buffer = buffer,
                         !.cache.index_type = index_type,
                         !.calls = Append(@, Call("bind_buffer", target, buffer)),
                         !.binds = Append(@, [target |-> target, h |-> buffer,
                                              native |-> TRUE])]
         ELSE [st EXCEPT !.binds = Append(@, [target |-> target, h |-> buffer,
                                              native |-> FALSE])]

\* GlCache::bind_buffer
bind_buffer(st, target, buffer, index_type) ==
    IF target = ARRAY_BUFFER
    THEN IF st.cache.vertex_buffer # buffer
         THEN [st EXCEPT !.cache.vertex_buffer = buffer,
                         !.calls = Append(@, Call("bind_buffer", target, buffer)),
                         !.binds = Append(@, [target |-> target, h |-> buffer,
                                              native |-> TRUE])]
         ELSE [st EXCEPT !.binds = Append(@, [target |-> target, h |-> buffer,
                                              native |-> FALSE])]
    ELSE LET s1 == IF st.cache.index_buffer # buffer
                   THEN [st EXCEPT !.cache.index_buffer = buffer,
                                   !.calls = Append(@, Call("bind_buffer", target, buffer)),
                                   !.binds = Append(@, [target |-> target, h |-> buffer,
                                                        native |-> TRUE])]
                   ELSE [st EXCEPT !.binds = Append(@, [target |-> target, h |-> buffer,
                                                        native |-> FALSE])]
         IN  [s1 EXCEPT !.cache.index_type = index_type]

\* store_buffer_binding saving the other target's handle
store_buffer_binding_swapped(st, target) ==
    IF target = ARRAY_BUFFER
    THEN [st EXCEPT !.cache.stored_vertex_buffer = st.cache.index_buffer]
    ELSE [st EXCEPT !.cache.stored_index_buffer = st.cache.vertex_buffer,
                    !.cache.stored_index_type = st.cache.index_type]

\* GlCache::store_buffer_binding
store_buffer_binding(st, target) ==
    IF target = ARRAY_BUFFER
    THEN [st EXCEPT !.cache.stored_vertex_buffer = st.cache.vertex_buffer]
    ELSE [st EXCEPT !.cache.stored_index_buffer = st.cache.index_buffer,
                    !.cache.stored_index_type = st.cache.index_type]

\* GlCache::restore_buffer_binding
restore_buffer_binding(st, target) ==
    IF target = ARRAY_BUFFER
    THEN IF st.cache.stored_vertex_buffer # None
         THEN LET s1 == bind_buffer(st, target, st.cache.stored_vertex_buffer, NoIndexType)
              IN  [s1 EXCEPT !.cache.stored_vertex_buffer = None]
         ELSE st
    ELSE IF st.cache.stored_index_buffer # None
         THEN LET s1 == bind_buffer(st, target, st.cache.stored_index_buffer, NoIndexType)
              IN  [s1 EXCEPT !.cache.stored_index_buffer = None]
         ELSE st

\* GlCache::bind_texture
bind_texture(st, slot_index, texture) ==
    LET s1 == [st EXCEPT !.calls = Append(@, Call("active_texture", "TEXTURE0", slot_index))]
    IN  IF s1.cache.textures[slot_index] # texture
        THEN [s1 EXCEPT !.calls = Append(@, Call("bind_texture", "TEXTURE_2D", texture)),
                        !.cache.textures[slot_index] = texture]
        ELSE s1

\* GlCache::store_texture_binding
store_texture_binding(st, slot_index) ==
    [st EXCEPT !.cache.stored_texture = st.cache.textures[slot_index]]

\* A restore that rebinds only a stored handle, as restore_buffer_binding does
restore_texture_binding_if_some(st, slot_index) ==
    IF st.cache.stored_texture # None
    THEN bind_texture(st, slot_index, st.cache.stored_texture)
    ELSE st

\* GlCache::restore_texture_binding
restore_texture_binding(st, slot_index) ==
    bind_texture(st, slot_index, st.cache.stored_texture)

\* GlCache::clear_buffer_bindings
clear_buffer_bindings(st) ==
    LET s1 == bind_buffer(st, ARRAY_BUFFER, None, NoIndexType)
        s2 == [s1 EXCEPT !.cache.vertex_buffer = None]
        s3 == bind_buffer(s2, ELEMENT_ARRAY_BUFFER, None, NoIndexType)
    IN  [s3 EXCEPT !.cache.index_buffer = None]

\* GlCache::clear_texture_bindings: the loop over the slots from ix upwards
RECURSIVE clear_texture_from(_, _)
clear_texture_from(st, ix) ==
    IF ix >= MAX_SHADERSTAGE_IMAGES THEN st
    ELSE IF st.cache.textures[ix] # None
         THEN LET s1 == bind_texture(st, ix, None)
              IN  clear_texture_from([s1 EXCEPT !.cache.textures[ix] = None], ix + 1)
         ELSE clear_texture_from(st, ix + 1)

\* GlCache::clear_texture_bindings
clear_texture_bindings(st) == clear_texture_from(st, 0)

----------------------------------------------------------------------------
(* Shaders and pipelines *)

\* Option<T> of a structured value: <<>> is None, <<x>> is Some(x)
Some(x) == <<x>>
IsSome(o) == o # <<>>
Unwrap(o) == o[1]

UniformTypes == {"Float1", "Float2", "Float3", "Float4",
                 "Int1", "Int2", "Int3", "Int4", "Mat4"}

\* UniformType::size, in bytes
UniformTypeSize(uniform_type) ==
    CASE uniform_type \in {"Float1", "Int1"} -> 4
      [] uniform_type \in {"Float2", "Int2"} -> 8
      [] uniform_type \in {"Float3", "Int3"} -> 12
      [] uniform_type \in {"Float4", "Int4"} -> 16
      [] uniform_type = "Mat4" -> 64

\* VertexFormat::size, components
VertexFormatSize(format) ==
    CASE format \in {"Float1", "Byte1", "Short1", "Int1"} -> 1
      [] format \in {"Float2", "Byte2", "Short2", "Int2"} -> 2
      [] format \in {"Float3", "Byte3", "Short3", "Int3"} -> 3
      [] format \in {"Float4", "Byte4", "Short4", "Int4"} -> 4
      [] format = "Mat4" -> 16

\* VertexFormat::type_
VertexFormatType(format) ==
    CASE format \in {"Float1", "Float2", "Float3", "Float4", "Mat4"} -> "FLOAT"
      [] format \in {"Byte1", "Byte2", "Byte3", "Byte4"} -> "UNSIGNED_BYTE"
      [] format \in {"Short1", "Short2", "Short3", "Short4"} -> "UNSIGNED_SHORT"
      [] format \in {"Int1", "Int2", "Int3", "Int4"} -> "UNSIGNED_INT"

\* VertexFormat::byte_len
VertexFormatByteLen(format) ==
    CASE VertexFormatType(format) = "FLOAT" -> VertexFormatSize(format) * 4
      [] VertexFormatType(format) = "UNSIGNED_BYTE" -> VertexFormatSize(format)
      [] VertexFormatType(format) = "UNSIGNED_SHORT" -> VertexFormatSize(format) * 2
      [] VertexFormatType(format) = "UNSIGNED_INT" -> VertexFormatSize(format) * 4

\* BufferLayout::default
DefaultBufferLayout == [stride |-> 0, step_func |-> "PerVertex", step_rate |-> 1]

\* load_shader_internal, the success path: the ShaderInternal built from the
\* metadata; image_locs and uniform_locs are the driver's answers to
\* get_uniform_location (<<>>: the name has no location).
ShaderInternal(program, meta, image_locs, uniform_locs) ==
    [ program  |-> program,
      images   |-> [n \in 1..Len(meta.images) |-> [gl_loc |-> image_locs[n]]],
      uniforms |-> [n \in 1..Len(meta.uniforms) |->
                        [ gl_loc       |-> uniform_locs[n],
                          uniform_type |-> meta.uniforms[n].uniform_type,
                          array_count  |-> meta.uniforms[n].array_count ]] ]

\* What the driver makes of the sources of a Shader::new: whether the vertex
\* and the fragment shader compile and whether the program links
DriverAnswers == [vertex : BOOLEAN, fragment : BOOLEAN, link : BOOLEAN]

AllBuilt == [vertex |-> TRUE, fragment |-> TRUE, link |-> TRUE]

\* A load_shader that reports every failure as one of the vertex stage
load_shader_untyped(st, shader_type, shader, compiled) ==
    LET s1 == [st EXCEPT !.calls = @ \o << Call("create_shader", shader_type, shader),
                                           Call("compile_shader", shader_type, shader) >>]
    IN  IF compiled THEN s1
        ELSE [s1 EXCEPT !.result = "CompilationError(Vertex)"]

\* load_shader(context, shader_type, source); shader is the name the driver
\* gives the new shader object
load_shader(st, shader_type, shader, compiled) ==
    LET s1 == [st EXCEPT !.calls = @ \o << Call("create_shader", shader_type, shader),
                                           Call("compile_shader", shader_type, shader) >>]
    IN  IF compiled THEN s1
        ELSE [s1 EXCEPT !.result = IF shader_type = "VERTEX_SHADER"
                                   THEN "CompilationError(Vertex)"
                                   ELSE "CompilationError(Fragment)"]

\* load_shader_internal, the native calls and the outcome; the driver names
\* the two shader objects of the call 1 and 2
load_shader_internal(st, program, driver) ==
    LET vertex_shader == load_shader(st, "VERTEX_SHADER", 1, driver.vertex)
        fragment_shader == load_shader(vertex_shader, "FRAGMENT_SHADER", 2, driver.fragment)
        linked == [fragment_shader EXCEPT
                     !.calls = @ \o << Call("create_program", "program", program),
                                       Call("attach_shader", "program", 1),
                                       Call("attach_shader", "program", 2),
                                       Call("link_program", "program", program) >>]
        deleted == << Call("delete_shader", "VERTEX_SHADER", 1),
                      Call("delete_shader", "FRAGMENT_SHADER", 2) >>
    IN  IF vertex_shader.result # "ok" THEN vertex_shader
        ELSE IF fragment_shader.result # "ok" THEN fragment_shader
        ELSE IF ~driver.link
        THEN [linked EXCEPT !.calls = @ \o deleted, !.result = "LinkError"]
        ELSE [linked EXCEPT
                !.calls = @ \o << Call("use_program", "program", program) >> \o deleted]

\* Pipeline::with_params, first loop: the per-buffer stride after the attributes
\* 1..n; ok is FALSE after a panic (buffer index out of range, stride over 255)
RECURSIVE StrideAfter(_, _, _)
StrideAfter(buffer_layout, attributes, n) ==
    IF n = 0 THEN [ok |-> TRUE, stride |-> [b \in 1..Len(buffer_layout) |-> 0]]
    ELSE LET prev == StrideAfter(buffer_layout, attributes, n - 1)
             a == attributes[n]
             b == a.buffer_index + 1
         IN  IF ~prev.ok THEN prev
             ELSE IF b > Len(buffer_layout) THEN [prev EXCEPT !.ok = FALSE]
             ELSE LET stride == IF buffer_layout[b].stride = 0
                                THEN prev.stride[b] + VertexFormatByteLen(a.format)
                                ELSE buffer_layout[b].stride
                  IN  IF stride <= 255 THEN [prev EXCEPT !.stride[b] = stride]
                      ELSE [prev EXCEPT !.ok = FALSE]

\* Pipeline::with_params: attributes_len
RECURSIVE AttributesLen(_)
AttributesLen(attributes) ==
    IF attributes = <<>> THEN 0
    ELSE (IF Head(attributes).format = "Mat4" THEN 4 ELSE 1) + AttributesLen(Tail(attributes))

\* Pipeline::with_params, second loop, inner loop: the rows i..count-1 of one
\* attribute.  acc = [layout, offset, ok]; layout is 0-based by location.
RECURSIVE LayoutRows(_, _, _, _, _, _, _, _)
LayoutRows(acc, i, count, format, attr_loc, stride, buffer_index, divisor) ==
    IF i >= count \/ ~acc.ok THEN acc
    ELSE LET b == buffer_index + 1
             placed ==
                IF IsSome(attr_loc)
                THEN LET loc == Unwrap(attr_loc) + i
                         attr == [ attr_loc     |-> loc,
                                   size         |-> VertexFormatSize(format),
                                   type_        |-> VertexFormatType(format),
                                   offset       |-> acc.offset[b],
                                   stride       |-> stride[b],
                                   buffer_index |-> buffer_index,
                                   divisor      |-> divisor ]
                     IN  IF loc < Len(acc.layout)
                         THEN [acc EXCEPT !.layout[loc + 1] = Some(attr)]
                         ELSE [acc EXCEPT !.ok = FALSE]
                ELSE acc
             next == IF placed.ok
                     THEN [placed EXCEPT !.offset[b] = @ + VertexFormatByteLen(format)]
                     ELSE placed
         IN  LayoutRows(next, i + 1, count, format, attr_loc, stride, buffer_index, divisor)

\* The second loop writing one row for every attribute, a Mat4 included
RECURSIVE LayoutFrom_one_row(_, _, _, _, _, _)
LayoutFrom_one_row(acc, n, buffer_layout, attributes, stride, locs) ==
    IF n > Len(attributes) \/ ~acc.ok THEN acc
    ELSE LET a == attributes[n]
             layout == buffer_layout[a.buffer_index + 1]
             divisor == IF layout.step_func = "PerVertex" THEN 0 ELSE layout.step_rate
             next == LayoutRows(acc, 0, 1, a.format, locs[n], stride,
                                a.buffer_index, divisor)
         IN  LayoutFrom_one_row(next, n + 1, buffer_layout, attributes, stride, locs)

\* Pipeline::with_params, second loop over the attributes n..Len
RECURSIVE LayoutFrom(_, _, _, _, _, _)
LayoutFrom(acc, n, buffer_layout, attributes, stride, locs) ==
    IF n > Len(attributes) \/ ~acc.ok THEN acc
    ELSE LET a == attributes[n]
             layout == buffer_layout[a.buffer_index + 1]
             divisor == IF layout.step_func = "PerVertex" THEN 0 ELSE layout.step_rate
             count == IF a.format = "Mat4" THEN 4 ELSE 1
             format == IF a.format = "Mat4" THEN "Float4" ELSE a.format
             next == LayoutRows(acc, 0, count, format, locs[n], stride,
                                a.buffer_index, divisor)
         IN  LayoutFrom(next, n + 1, buffer_layout, attributes, stride, locs)

\* with_params taking each stride as the layout declares it, 0 included
with_params_declared_stride(buffer_layout, attributes, shader, locs, params) ==
    LET strides == StrideAfter(buffer_layout, attributes, Len(attributes))
        len == AttributesLen(attributes)
        acc0 == [ layout |-> [k \in 1..len |-> <<>>],
                  offset |-> [b \in 1..Len(buffer_layout) |-> 0],
                  ok     |-> TRUE ]
        acc == LayoutFrom(acc0, 1, buffer_layout, attributes,
                          [b \in 1..Len(buffer_layout) |-> buffer_layout[b].stride], locs)
    IN  IF ~strides.ok THEN [ok |-> FALSE, pipeline |-> <<>>]
        ELSE [ ok |-> acc.ok,
               pipeline |-> [layout |-> acc.layout, shader |-> shader, params |-> params] ]

\* with_params without the assertion on the stride
with_params_no_stride_assert(buffer_layout, attributes, shader, locs, params) ==
    LET strides == StrideAfter(buffer_layout, attributes, Len(attributes))
        len == AttributesLen(attributes)
        acc0 == [ layout |-> [k \in 1..len |-> <<>>],
                  offset |-> [b \in 1..Len(buffer_layout) |-> 0],
                  ok     |-> TRUE ]
        acc == LayoutFrom(acc0, 1, buffer_layout, attributes, strides.stride, locs)
    IN  [ ok |-> acc.ok,
          pipeline |-> [layout |-> acc.layout, shader |-> shader, params |-> params] ]

\* Pipeline::with_params: [ok, pipeline], pipeline the PipelineInternal pushed
\* to the table and ok FALSE after a panic.  locs[n] is the driver's
\* get_attrib_location for attribute n (<<>>: not in the program).
with_params(buffer_layout, attributes, shader, locs, params) ==
    LET strides == StrideAfter(buffer_layout, attributes, Len(attributes))
        len == AttributesLen(attributes)
        acc0 == [ layout |-> [k \in 1..len |-> <<>>],
                  offset |-> [b \in 1..Len(buffer_layout) |-> 0],
                  ok     |-> TRUE ]
        acc == LayoutFrom(acc0, 1, buffer_layout, attributes, strides.stride, locs)
    IN  IF ~strides.ok THEN [ok |-> FALSE, pipeline |-> <<>>]
        ELSE [ ok |-> acc.ok,
               pipeline |-> [layout |-> acc.layout, shader |-> shader, params |-> params] ]

----------------------------------------------------------------------------
(* Context *)

Panic(st) == [st EXCEPT !.result = "panic"]

\* PipelineParams::default(), by the fields apply_pipeline reads
DefaultParams ==
    [ cull_face        |-> "Nothing",
      front_face_order |-> "CounterClockwise",
      depth_test       |-> "Always",
      depth_write      |-> FALSE,
      color_blend      |-> <<>>,
      alpha_blend      |-> <<>>,
      stencil_test     |-> <<>>,
      color_write      |-> <<TRUE, TRUE, TRUE, TRUE>> ]

\* set_cull_face storing the value without comparing it to the cached one
set_cull_face_always(st, cull_face) ==
    [st EXCEPT
       !.calls = @ \o
          (IF cull_face = "Nothing" THEN << Call("disable", "CULL_FACE", 0) >>
           ELSE << Call("enable", "CULL_FACE", 0), Call("cull_face", cull_face, 0) >>),
       !.cache.cull_face = cull_face]

\* Context::set_cull_face
set_cull_face(st, cull_face) ==
    IF st.cache.cull_face = cull_face THEN st
    ELSE [st EXCEPT
            !.calls = @ \o
               (IF cull_face = "Nothing" THEN << Call("disable", "CULL_FACE", 0) >>
                ELSE << Call("enable", "CULL_FACE", 0), Call("cull_face", cull_face, 0) >>),
            !.cache.cull_face = cull_face]

\* Context::set_color_write; the call carries the mask as the bits r, g, b, a
set_color_write(st, color_write) ==
    IF st.cache.color_write = color_write THEN st
    ELSE [st EXCEPT
            !.calls = Append(@, Call("color_mask", "",
                                     (IF color_write[1] THEN 1 ELSE 0)
                                       + (IF color_write[2] THEN 2 ELSE 0)
                                       + (IF color_write[3] THEN 4 ELSE 0)
                                       + (IF color_write[4] THEN 8 ELSE 0))),
            !.cache.color_write = color_write]

\* Context::set_blend; a BlendState is a number standing for its three fields
set_blend(st, color_blend, alpha_blend) ==
    IF ~IsSome(color_blend) /\ IsSome(alpha_blend) THEN Panic(st)
    ELSE IF st.cache.color_blend = color_blend /\ st.cache.alpha_blend = alpha_blend THEN st
    ELSE [st EXCEPT
            !.calls = @ \o
               (IF IsSome(color_blend)
                THEN (IF ~IsSome(st.cache.color_blend)
                      THEN << Call("enable", "BLEND", 0) >> ELSE <<>>)
                     \o (IF IsSome(alpha_blend)
                         THEN << Call("blend_func_separate", "", Unwrap(color_blend)),
                                 Call("blend_equation_separate", "", Unwrap(alpha_blend)) >>
                         ELSE << Call("blend_func", "", Unwrap(color_blend)),
                                 Call("blend_equation_separate", "", Unwrap(color_blend)) >>)
                ELSE IF IsSome(st.cache.color_blend)
                     THEN << Call("disable", "BLEND", 0) >> ELSE <<>>),
            !.cache.color_blend = color_blend,
            !.cache.alpha_blend = alpha_blend]

\* set_stencil that leaves the stencil test enabled when the test is taken away
set_stencil_keeps_test(st, stencil_test) ==
    IF st.cache.stencil = stencil_test THEN st
    ELSE [st EXCEPT
            !.calls = @ \o
               (IF IsSome(stencil_test)
                THEN << Call("enable", "STENCIL_TEST", 0),
                        Call("stencil_op_separate", "FRONT", Unwrap(stencil_test)) >>
                ELSE <<>>),
            !.cache.stencil = stencil_test]

\* Context::set_stencil; a StencilState is a number standing for its two faces
set_stencil(st, stencil_test) ==
    IF st.cache.stencil = stencil_test THEN st
    ELSE [st EXCEPT
            !.calls = @ \o
               (IF IsSome(stencil_test)
                THEN (IF ~IsSome(st.cache.stencil)
                      THEN << Call("enable", "STENCIL_TEST", 0) >> ELSE <<>>)
                     \o << Call("stencil_op_separate", "FRONT", Unwrap(stencil_test)),
                           Call("stencil_func_separate", "FRONT", Unwrap(stencil_test)),
                           Call("stencil_mask_separate", "FRONT", Unwrap(stencil_test)),
                           Call("stencil_op_separate", "BACK", Unwrap(stencil_test)),
                           Call("stencil_func_separate", "BACK", Unwrap(stencil_test)),
                           Call("stencil_mask_separate", "BACK", Unwrap(stencil_test)) >>
                ELSE IF IsSome(st.cache.stencil)
                     THEN << Call("disable", "STENCIL_TEST", 0) >> ELSE <<>>),
            !.cache.stencil = stencil_test]

\* Context::apply_pipeline
apply_pipeline(st, tables, pipeline) ==
    LET s1 == [st EXCEPT !.cache.cur_pipeline = pipeline]
        pip == tables.pipelines[pipeline]
        shader == tables.shaders[pip.shader]
        s2 == [s1 EXCEPT
                 !.calls = @ \o << Call("use_program", "program", shader.program),
                                   Call("enable", "SCISSOR_TEST", 0) >>
                             \o (IF pip.params.depth_write
                                 THEN << Call("enable", "DEPTH_TEST", 0),
                                         Call("depth_func", pip.params.depth_test, 0) >>
                                 ELSE << Call("disable", "DEPTH_TEST", 0) >>)
                             \o << Call("front_face", pip.params.front_face_order, 0) >>]
        s3 == set_cull_face(s2, pip.params.cull_face)
        s4 == set_blend(s3, pip.params.color_blend, pip.params.alpha_blend)
    IN  IF s4.result = "panic" THEN s4
        ELSE set_color_write(set_stencil(s4, pip.params.stencil_test), pip.params.color_write)

\* The loop asking for the bindings' image only where the sampler is located
RECURSIVE apply_images_located_only(_, _, _, _)
apply_images_located_only(st, shader, bindings, n) ==
    IF n > Len(shader.images) THEN st
    ELSE IF ~IsSome(shader.images[n].gl_loc)
         THEN apply_images_located_only(st, shader, bindings, n + 1)
    ELSE IF n > Len(bindings.images) THEN Panic(st)
    ELSE LET b == bind_texture(st, n - 1, bindings.images[n].texture)
         IN  apply_images_located_only(
                [b EXCEPT !.calls = Append(@, Call("uniform_1_i32", "sampler", n - 1))],
                shader, bindings, n + 1)

\* Context::apply_bindings, the loop over the shader's images from n (1-based)
RECURSIVE apply_images_from(_, _, _, _)
apply_images_from(st, shader, bindings, n) ==
    IF n > Len(shader.images) THEN st
    ELSE IF n > Len(bindings.images) THEN Panic(st)
    ELSE LET s1 == IF IsSome(shader.images[n].gl_loc)
                   THEN LET b == bind_texture(st, n - 1, bindings.images[n].texture)
                        IN  [b EXCEPT !.calls = Append(@, Call("uniform_1_i32", "sampler", n - 1))]
                   ELSE st
         IN  apply_images_from(s1, shader, bindings, n + 1)

\* The test taking any cached entry as a match
attribute_differs_unless_cached(cached_attr, attribute, vb) ==
    ~IsSome(cached_attr)

\* The test comparing the descriptors alone
attribute_differs_ignoring_buffer(cached_attr, attribute, vb) ==
    IF ~IsSome(cached_attr) THEN TRUE
    ELSE attribute # Unwrap(cached_attr).attribute

\* The test of apply_bindings on a cached attribute: TRUE when the slot must be
\* set up again
attribute_differs(cached_attr, attribute, vb) ==
    IF ~IsSome(cached_attr) THEN TRUE
    ELSE IF attribute # Unwrap(cached_attr).attribute THEN TRUE
    ELSE IF Unwrap(cached_attr).gl_vbuf = None THEN TRUE
    ELSE Unwrap(cached_attr).gl_vbuf # vb.gl_buf

\* Context::apply_bindings, the loop over the attribute slots from attr_index
RECURSIVE apply_attributes_from(_, _, _, _)
apply_attributes_from(st, pip, bindings, attr_index) ==
    IF attr_index >= MAX_VERTEX_ATTRIBUTES \/ st.result = "panic" THEN st
    ELSE LET cached_attr == st.cache.attributes[attr_index]
             pip_attribute == IF attr_index < Len(pip.layout)
                              THEN pip.layout[attr_index + 1] ELSE <<>>
             s1 ==
               IF IsSome(pip_attribute)
               THEN LET attribute == Unwrap(pip_attribute)
                    IN  IF attribute.buffer_index >= Len(bindings.vertex_buffers)
                        THEN Panic(st)
                        ELSE LET vb == bindings.vertex_buffers[attribute.buffer_index + 1]
                             IN  IF attribute_differs(cached_attr, attribute, vb)
                                 THEN LET b == bind_buffer(st, ARRAY_BUFFER, vb.gl_buf, vb.index_type)
                                      IN  [b EXCEPT
                                            !.calls = @ \o
                                              << Call("vertex_attrib_pointer_f32", "attr", attr_index),
                                                 Call("vertex_attrib_divisor", "attr", attr_index),
                                                 Call("enable_vertex_attrib_array", "attr", attr_index) >>,
                                            !.cache.attributes[attr_index] =
                                                Some([attribute |-> attribute, gl_vbuf |-> vb.gl_buf]),
                                            !.slots = Append(@, [slot |-> attr_index, did |-> "setup"])]
                                 ELSE [st EXCEPT !.slots = Append(@, [slot |-> attr_index,
                                                                      did |-> "skip"])]
               ELSE IF IsSome(cached_attr)
                    THEN [st EXCEPT
                            !.calls = Append(@, Call("disable_vertex_attrib_array", "attr", attr_index)),
                            !.cache.attributes[attr_index] = <<>>,
                            !.slots = Append(@, [slot |-> attr_index, did |-> "disable"])]
                    ELSE st
         IN  apply_attributes_from(s1, pip, bindings, attr_index + 1)

\* Context::apply_bindings
apply_bindings(st, tables, bindings) ==
    IF st.cache.cur_pipeline = None THEN Panic(st)
    ELSE LET pip == tables.pipelines[st.cache.cur_pipeline]
             shader == tables.shaders[pip.shader]
             s1 == apply_images_from(st, shader, bindings, 1)
         IN  IF s1.result = "panic" THEN s1
             ELSE LET s2 == bind_buffer(s1, ELEMENT_ARRAY_BUFFER,
                                        bindings.index_buffer.gl_buf,
                                        bindings.index_buffer.index_type)
                  IN  apply_attributes_from(s2, pip, bindings, 0)

\* The native upload call apply_uniforms_from_bytes issues for a uniform type
UniformUploadCall(uniform_type) ==
    CASE uniform_type = "Float1" -> "uniform_1_f32_slice"
      [] uniform_type = "Float2" -> "uniform_2_f32_slice"
      [] uniform_type = "Float3" -> "uniform_3_f32_slice"
      [] uniform_type = "Float4" -> "uniform_4_f32_slice"
      [] uniform_type = "Int1" -> "uniform_1_i32_slice"
      [] uniform_type = "Int2" -> "uniform_2_i32_slice"
      [] uniform_type = "Int3" -> "uniform_3_i32_slice"
      [] uniform_type = "Int4" -> "uniform_3_i32_slice"
      [] uniform_type = "Mat4" -> "uniform_matrix_4_f32_slice"

\* The number of scalars in the slice handed to the upload call
UniformSliceLen(uniform) ==
    uniform.array_count *
        (CASE uniform.uniform_type \in {"Float1", "Int1"} -> 1
           [] uniform.uniform_type \in {"Float2", "Int2"} -> 2
           [] uniform.uniform_type \in {"Float3", "Int3"} -> 3
           [] uniform.uniform_type \in {"Float4", "Int4"} -> 4
           [] uniform.uniform_type = "Mat4" -> 16)

\* The assertion of apply_uniforms_from_bytes, offset <= size - type_size / 4 in
\* usize: "pass", "fail", or, when the subtraction underflows, a panic with
\* overflow checks on and a wrapped (huge) right-hand side without them.
uniform_assert(offset, size, uniform, overflow_checks) ==
    LET words == UniformTypeSize(uniform.uniform_type) \div 4
    IN  IF size < words
        THEN (IF overflow_checks THEN "fail" ELSE "pass")
        ELSE (IF offset <= size - words THEN "pass" ELSE "fail")

\* The loop advancing the offset past the located uniforms alone
RECURSIVE apply_uniforms_from_located_only(_, _, _, _, _, _)
apply_uniforms_from_located_only(st, shader, size, overflow_checks, n, offset) ==
    IF n > Len(shader.uniforms) THEN st
    ELSE LET uniform == shader.uniforms[n]
         IN  IF uniform_assert(offset, size, uniform, overflow_checks) = "fail"
             THEN Panic(st)
             ELSE IF IsSome(uniform.gl_loc)
             THEN apply_uniforms_from_located_only(
                     [st EXCEPT
                        !.calls = Append(@, Call(UniformUploadCall(uniform.uniform_type),
                                                 "uniform", n)),
                        !.uploads = Append(@, [n |-> n, offset |-> offset,
                                               len |-> UniformSliceLen(uniform)])],
                     shader, size, overflow_checks, n + 1,
                     offset + (UniformTypeSize(uniform.uniform_type) \div 4)
                                * uniform.array_count)
             ELSE apply_uniforms_from_located_only(st, shader, size, overflow_checks,
                                                   n + 1, offset)

\* Context::apply_uniforms_from_bytes, the loop over the uniforms from n
RECURSIVE apply_uniforms_from(_, _, _, _, _, _)
apply_uniforms_from(st, shader, size, overflow_checks, n, offset) ==
    IF n > Len(shader.uniforms) THEN st
    ELSE LET uniform == shader.uniforms[n]
         IN  IF uniform_assert(offset, size, uniform, overflow_checks) = "fail"
             THEN Panic(st)
             ELSE LET s1 ==
                        IF IsSome(uniform.gl_loc)
                        THEN [st EXCEPT
                               !.calls = Append(@, Call(UniformUploadCall(uniform.uniform_type),
                                                        "uniform", n)),
                               !.uploads = Append(@, [n |-> n, offset |-> offset,
                                                      len |-> UniformSliceLen(uniform)])]
                        ELSE st
                  IN  apply_uniforms_from(s1, shader, size, overflow_checks, n + 1,
                          offset + (UniformTypeSize(uniform.uniform_type) \div 4)
                                     * uniform.array_count)

\* Context::apply_uniforms / apply_uniforms_from_bytes; size is size_of::<U>()
apply_uniforms(st, tables, size, overflow_checks) ==
    IF st.cache.cur_pipeline = None THEN Panic(st)
    ELSE LET pip == tables.pipelines[st.cache.cur_pipeline]
             shader == tables.shaders[pip.shader]
         IN  apply_uniforms_from(st, shader, size, overflow_checks, 1, 0)

\* end_render_pass going on to clear the texture cache as commit_frame does
end_render_pass_clearing_textures(st) ==
    LET s1 == [st EXCEPT !.calls = Append(@, Call("bind_framebuffer", "FRAMEBUFFER",
                                                  DefaultFramebuffer))]
        s2 == bind_buffer(s1, ARRAY_BUFFER, None, NoIndexType)
    IN  clear_texture_bindings(bind_buffer(s2, ELEMENT_ARRAY_BUFFER, None, NoIndexType))

\* Context::end_render_pass: the default framebuffer and the two buffer targets
end_render_pass(st) ==
    LET s1 == [st EXCEPT !.calls = Append(@, Call("bind_framebuffer", "FRAMEBUFFER",
                                                  DefaultFramebuffer))]
        s2 == bind_buffer(s1, ARRAY_BUFFER, None, NoIndexType)
    IN  bind_buffer(s2, ELEMENT_ARRAY_BUFFER, None, NoIndexType)

\* commit_frame without the texture half
commit_frame_buffers_only(st) == clear_buffer_bindings(st)

\* Context::commit_frame
commit_frame(st) == clear_texture_bindings(clear_buffer_bindings(st))

\* draw without the assertion on the current pipeline
draw_unchecked(st, base_element) ==
    IF st.cache.index_type = NoIndexType THEN Panic(st)
    ELSE [st EXCEPT !.calls = Append(@, Call("draw_elements_instanced", st.cache.index_type,
                                    IndexTypeSize(st.cache.index_type) * base_element))]

\* Context::draw
draw(st, base_element) ==
    IF st.cache.cur_pipeline = None THEN Panic(st)
    ELSE IF st.cache.index_type = NoIndexType THEN Panic(st)
    ELSE [st EXCEPT !.calls = Append(@, Call("draw_elements_instanced", st.cache.index_type,
                                    IndexTypeSize(st.cache.index_type) * base_element))]

\* The scoped bind of Buffer::immutable, stream, index_stream and update:
\* store the binding, bind the buffer, (upload,) restore the binding
scoped_buffer_bind(st, gl_target, gl_buf, index_type, upload) ==
    LET s1 == store_buffer_binding(st, gl_target)
        s2 == bind_buffer(s1, gl_target, gl_buf, index_type)
        s3 == [s2 EXCEPT !.calls = Append(@, Call(upload, gl_target,
                                                  BoundHandle(s2.cache, gl_target)))]
    IN  restore_buffer_binding(s3, gl_target)

----------------------------------------------------------------------------
(* Texture *)

TextureKinds == {"Texture2D", "Texture3D", "Texture2DArray"}
TextureFormats == {"RGB8", "RGBA8", "Depth", "Alpha"}

BytesPerPixel(format) ==
    CASE format = "RGB8"  -> 3
      [] format = "RGBA8" -> 4
      [] format = "Depth" -> 2
      [] format = "Alpha" -> 1

\* TextureFormat::size; the u32 products stay far below 2^32 for the
\* dimensions of the model
TextureFormatSize(format, width, height) ==
    BytesPerPixel(format) * (width * height)

\* TextureFormat::size_3d
TextureFormatSize3d(format, width, height, depth) ==
    BytesPerPixel(format) * (width * height * depth)

\* A size that takes every format as RGB8
TextureSizeAsRGB8(tex, width, height, depth) ==
    3 * (width * height) * (IF tex.kind = "Texture2D" THEN 1 ELSE depth)

\* Texture::size(&self, width, height, depth)
TextureSize(tex, width, height, depth) ==
    IF tex.kind = "Texture2D"
    THEN TextureFormatSize(tex.format, width, height)
    ELSE TextureFormatSize3d(tex.format, width, height, depth)

\* The GL target of a texture kind
TextureTarget(kind) ==
    CASE kind = "Texture2D"      -> "TEXTURE_2D"
      [] kind = "Texture3D"      -> "TEXTURE_3D"
      [] kind = "Texture2DArray" -> "TEXTURE_2D_ARRAY"

\* The GL target Texture::new and update_texture_part set parameters on
TextureParameterTarget(kind) ==
    IF kind = "Texture2D" THEN "TEXTURE_2D" ELSE "TEXTURE_3D"

\* Texture::empty
EmptyTexture ==
    [ texture |-> None, width |-> 0, height |-> 0, depth |-> 1,
      format |-> "RGBA8", kind |-> "Texture2D" ]

\* A texture upload as the driver sees it: the call, the target, the size of
\* the region, the slice handed over (len bytes holding data)
TexUpload(f, target, region, bytes) ==
    [ f |-> f, target |-> target, region |-> region,
      len |-> IF IsSome(bytes) THEN Unwrap(bytes).len ELSE 0,
      data |-> IF IsSome(bytes) THEN Unwrap(bytes).data ELSE 0 ]

Calls(st, cs) == [st EXCEPT !.calls = @ \o cs]

\* Texture::new(ctx, access, bytes, params, kind) giving the native name
\* texture; bytes is <<>> (None) or <<[len, data]>>
texture_new(st, texture, bytes, params, kind) ==
    IF IsSome(bytes) /\ TextureFormatSize(params.format, params.width, params.height)
                           # Unwrap(bytes).len
    THEN Panic(st)
    ELSE LET s1 == store_texture_binding(st, 0)
             s2 == Calls(s1, << Call("create_texture", "texture", texture) >>)
             s3 == bind_texture(s2, 0, texture)
             s4 == Calls(s3, << Call("pixel_store_i32", "UNPACK_ALIGNMENT", 1),
                                Call("tex_parameter_i32", "TEXTURE_2D", 0) >>)
             image == IF kind = "Texture2D" THEN "tex_image_2d" ELSE "tex_image_3d"
             region == params.width * params.height
                         * (IF kind = "Texture2D" THEN 1 ELSE params.depth)
             s5 == [Calls(s4, << Call(image, TextureTarget(kind), region) >>)
                      EXCEPT !.uploads = Append(@, TexUpload(image, TextureTarget(kind),
                                                             region, bytes))]
             n == IF kind = "Texture2D" THEN 4 ELSE 5
             s6 == Calls(s5, [i \in 1..n |->
                                Call("tex_parameter_i32", TextureParameterTarget(kind), i)])
         IN  restore_texture_binding(s6, 0)

\* Texture::from_rgba8(ctx, width, height, depth, bytes, kind)
texture_from_rgba8(st, texture, width, height, depth, bytes, kind) ==
    IF width * height * 4 # bytes.len THEN Panic(st)
    ELSE texture_new(st, texture, Some(bytes),
                     [format |-> "RGBA8", width |-> width, height |-> height,
                      depth |-> depth], kind)

\* Texture::set_filter(&self, ctx, filter)
texture_set_filter(st, tex) ==
    LET s1 == store_texture_binding(st, 0)
        s2 == bind_texture(s1, 0, tex.texture)
        s3 == Calls(s2, << Call("tex_parameter_i32", TextureTarget(tex.kind), 3),
                           Call("tex_parameter_i32", TextureTarget(tex.kind), 4) >>)
    IN  restore_texture_binding(s3, 0)

\* Texture::update_texture_part(&self, ctx, x_offset, y_offset, z_offset,
\* width, height, depth, bytes)
update_texture_part(st, tex, x_offset, y_offset, width, height, depth, bytes) ==
    IF \/ TextureSize(tex, width, height, depth) # bytes.len
       \/ ~(x_offset + width <= tex.width)
       \/ ~(y_offset + height <= tex.height)
    THEN Panic(st)
    ELSE LET s1 == store_texture_binding(st, 0)
             s2 == bind_texture(s1, 0, tex.texture)
             sub == IF tex.kind = "Texture2D" THEN "tex_sub_image_2d" ELSE "tex_sub_image_3d"
             region == width * height * (IF tex.kind = "Texture2D" THEN 1 ELSE depth)
             s3 == Calls(s2, << Call("pixel_store_i32", "UNPACK_ALIGNMENT", 1),
                                Call("tex_parameter_i32", TextureParameterTarget(tex.kind), 0),
                                Call(sub, TextureTarget(tex.kind), region) >>)
             s4 == [s3 EXCEPT !.uploads = Append(@, TexUpload(sub, TextureTarget(tex.kind),
                                                              region, Some(bytes)))]
         IN  restore_texture_binding(s4, 0)

\* Texture::update(&self, ctx, bytes)
texture_update(st, tex, bytes) ==
    IF TextureSize(tex, tex.width, tex.height, tex.depth) # bytes.len THEN Panic(st)
    ELSE update_texture_part(st, tex, 0, 0, tex.width, tex.height, tex.depth, bytes)

\* Texture::resize(&mut self, ctx, width, height, bytes): the upload goes to
\* the TEXTURE_2D binding of the active unit as the call finds it
texture_resize(st, tex, width, height, bytes) ==
    LET s1 == store_texture_binding(st, 0)
        s2 == [Calls(s1, << Call("tex_image_2d", "TEXTURE_2D", width * height) >>)
                 EXCEPT !.uploads = Append(@, TexUpload("tex_image_2d", "TEXTURE_2D",
                                                        width * height, bytes))]
    IN  restore_texture_binding(s2, 0)

\* Texture::delete(&self): the native delete, none for a Texture without a
\* handle
texture_delete(st, tex) ==
    IF tex.texture = None THEN st
    ELSE Calls(st, << Call("delete_texture", "texture", tex.texture) >>)

\* Buffer::delete(&self) for the buffers n.. of a list
RECURSIVE delete_buffers_from(_, _, _)
delete_buffers_from(st, bufs, n) ==
    IF n > Len(bufs) THEN st
    ELSE delete_buffers_from(Calls(st, << Call("delete_buffer", "buffer", bufs[n].gl_buf) >>),
                             bufs, n + 1)

\* Texture::delete(&self) for the textures n.. of a list
RECURSIVE delete_textures_from(_, _, _)
delete_textures_from(st, texs, n) ==
    IF n > Len(texs) THEN st
    ELSE delete_textures_from(texture_delete(st, texs[n]), texs, n + 1)

\* A drop that deletes the two lists and leaves the index buffer
bindings_drop_lists_only(st, bindings) ==
    delete_textures_from(delete_buffers_from(st, bindings.vertex_buffers, 1),
                         bindings.images, 1)

\* impl Drop for Bindings
bindings_drop(st, bindings) ==
    LET s1 == delete_buffers_from(st, bindings.vertex_buffers, 1)
        s2 == Calls(s1, << Call("delete_buffer", "buffer", bindings.index_buffer.gl_buf) >>)
    IN  delete_textures_from(s2, bindings.images, 1)

----------------------------------------------------------------------------
(* The driver's texture state, as the native calls change it: the active    *)
(* unit, the texture bound to TEXTURE_2D on every unit, the names that are  *)
(* texture objects (a created name becomes one when first bound), and the   *)
(* image of every object (0 is the default texture)                         *)

NoImage == [size |-> 0, data |-> 0]

IsTexUpload(f) == f \in {"tex_image_2d", "tex_image_3d", "tex_sub_image_2d", "tex_sub_image_3d"}

\* One texture upload on the TEXTURE_2D target of the active unit; the other
\* targets never have a texture bound and keep their default textures
TexUploadAfter(g, up) ==
    LET bound == g.units[g.active]
        img == g.image[bound]
    IN  IF up.target # "TEXTURE_2D" THEN g
        ELSE IF up.f = "tex_image_2d"
        THEN [g EXCEPT !.image[bound] = [size |-> up.region, data |-> up.data]]
        ELSE IF up.region > img.size THEN g
        ELSE [g EXCEPT !.image[bound].data = IF up.region = img.size THEN up.data ELSE 0]

RECURSIVE TexturesAfter(_, _, _)
TexturesAfter(g, cs, ups) ==
    IF cs = <<>> THEN g
    ELSE LET c == Head(cs)
             f == c[1]
         IN  IF IsTexUpload(f)
             THEN TexturesAfter(TexUploadAfter(g, Head(ups)), Tail(cs), Tail(ups))
             ELSE TexturesAfter(
                    CASE f = "active_texture" -> [g EXCEPT !.active = c[3]]
                      [] f = "create_texture" -> [g EXCEPT !.textures = @ \cup {c[3]}]
                      [] f = "bind_texture" ->
                           [g EXCEPT !.units[g.active] = c[3],
                                     !.objects = IF c[3] = None THEN @ ELSE @ \cup {c[3]}]
                      [] f = "delete_texture" ->
                           [g EXCEPT !.textures = @ \ {c[3]},
                                     !.objects = @ \ {c[3]},
                                     !.image[c[3]] = NoImage,
                                     !.units = [u \in DOMAIN @ |->
                                                  IF @[u] = c[3] THEN None ELSE @[u]]]
                      [] f = "enable_vertex_attrib_array" ->
                           [g EXCEPT !.arrays = @ \cup {c[3]}]
                      [] f = "disable_vertex_attrib_array" ->
                           [g EXCEPT !.arrays = @ \ {c[3]}]
                      [] OTHER -> g,
                    Tail(cs), ups)

----------------------------------------------------------------------------
(* The driver's context state, as the native calls change it: the buffer    *)
(* bound to each target, the program in use and the enabled capabilities.   *)
(* A fresh context has nothing bound, no program and the capabilities the   *)
(* library switches all disabled; deleting a bound buffer unbinds it.       *)

NewGlState ==
    [ buffer  |-> [target \in Targets |-> None],
      program |-> None,
      caps    |-> {} ]

RECURSIVE GlStateAfter(_, _)
GlStateAfter(g, cs) ==
    IF cs = <<>> THEN g
    ELSE LET c == Head(cs)
             f == c[1]
         IN  GlStateAfter(
               CASE f = "bind_buffer" -> [g EXCEPT !.buffer[c[2]] = c[3]]
                 [] f = "delete_buffer" ->
                      [g EXCEPT !.buffer = [target \in Targets |->
                                              IF @[target] = c[3] THEN None ELSE @[target]]]
                 [] f = "use_program" -> [g EXCEPT !.program = c[3]]
                 [] f = "enable" -> [g EXCEPT !.caps = @ \cup {c[2]}]
                 [] f = "disable" -> [g EXCEPT !.caps = @ \ {c[2]}]
                 [] OTHER -> g,
               Tail(cs))

----------------------------------------------------------------------------
(* The state after Context::new_impl *)

NoOp == [op |-> "new", target |-> "", arg |-> 0, result |-> "ok"]

NoInput == <<>>

NoLog == [binds |-> <<>>, slots |-> <<>>, uploads |-> <<>>]

LogOf(st) == [binds |-> st.binds, slots |-> st.slots, uploads |-> st.uploads]

(* window::start_main_loop (window/mod.rs): the OS event queue and the      *)
(* handler calls of the main loop                                           *)
MaxEvents == 3       \* events the OS delivers in a run
MaxFrames == 2       \* iterations of the main loop

\* sdl2::event::Event, by the arms of the match: n is the number of characters
\* of a TextInput, the keycode of a KeyDown (None when SDL reports no keycode)
\* and the new width of a Resized; "Other" is any event of the `_ => {}` arm
OsEvents ==
    { [kind |-> "Quit", n |-> 0], [kind |-> "MouseMotion", n |-> 0],
      [kind |-> "TextInput", n |-> 2], [kind |-> "KeyDown", n |-> None],
      [kind |-> "KeyDown", n |-> 1], [kind |-> "Resized", n |-> 2],
      [kind |-> "Other", n |-> 0] }

\* The handler calls one arm of the match makes for an event
HandlerCalls(event) ==
    CASE event.kind = "Quit" -> <<"quit_requested_event">>
      [] event.kind = "MouseMotion" -> <<"mouse_motion_event">>
      [] event.kind = "TextInput" -> [i \in 1..event.n |-> "char_event"]
      [] event.kind = "KeyDown" -> IF event.n # None THEN <<"key_down_event">> ELSE <<>>
      [] event.kind = "Resized" -> <<"resize_event">>
      [] OTHER -> <<>>

\* Context::update_window_size, called by the Resized arm before the handler
update_window_size(size, event) ==
    IF event.kind = "Resized" THEN event.n ELSE size

\* The newest event of the queue first
poll_event_newest(queue) ==
    [ event |-> queue[Len(queue)], rest |-> SubSeq(queue, 1, Len(queue) - 1) ]

\* EventPollIterator::next on a queue that holds an event: the oldest one
poll_event(queue) ==
    [ event |-> Head(queue), rest |-> Tail(queue) ]

\* The loop going on after an event whatever its kind
after_event_continue(event) == "poll"

\* Where the loop goes after the arm of an event: `break 'main_loop` for Quit
after_event(event) == IF event.kind = "Quit" THEN "exit" ELSE "poll"

\* WindowContext::quit losing the event
window_quit_dropped(l) == [l EXCEPT !.forced = TRUE]

\* WindowContext::quit called by a handler, on the loop l: push_event(Quit)
window_quit(l) ==
    [l EXCEPT !.queue = Append(@, [kind |-> "Quit", n |-> 0, id |-> l.arrived + 1]),
              !.arrived = @ + 1,
              !.forced = TRUE]

\* The handler calls `names` made for the event numbered id (0: no event)
CallsFor(names, id) == [i \in DOMAIN names |-> [call |-> names[i], event |-> id]]

\* The loop before its first iteration
NewLoop ==
    [ pc          |-> "poll",    \* poll | update | draw | present | exit
      queue       |-> <<>>,      \* events the OS holds, oldest first
      arrived     |-> 0,         \* events delivered so far; an event's number
      taken       |-> 0,         \* events polled by the iterations before this one
      polled      |-> <<>>,      \* numbers of the events polled in this iteration
      frame       |-> <<>>,      \* handler calls and present of this iteration
      pending     |-> 0,         \* events delivered when poll_iter ran dry
      done        |-> [calls |-> <<>>, polled |-> <<>>, start |-> 0, pending |-> 0],
                                 \* the last iteration that ran to its end
      frames      |-> 0,         \* iterations that ran to their end, up to MaxFrames
      forced      |-> FALSE,     \* a handler has called WindowContext::quit
      window_size |-> 1 ]        \* Context.window_size

NewRun == [h |-> None, before |-> None, natives |-> 0, count |-> 0]

Init ==
    /\ cache = NewCache
    /\ gl = [ buffers |-> {}, textures |-> {}, framebuffers |-> {},
              framebuffer |-> DefaultFramebuffer,
              arrays |-> {},
              active |-> 0,
              units |-> [slot \in 0..(MAX_SHADERSTAGE_IMAGES - 1) |-> None],
              objects |-> {},
              image |-> [t \in OptTexture |-> NoImage] ]
    /\ buffers = {}
    /\ textures = {}
    /\ shaders = <<>>
    /\ pipelines = <<>>
    /\ passes = <<>>
    /\ calls = <<>>
    /\ oplog = NoLog
    /\ last = NoOp
    /\ input = NoInput
    /\ hist = [ prev  |-> [op |-> "new", target |-> "", pre |-> None],
                pre   |-> None,
                binds |-> <<>>,
                run   |-> [t \in Targets |-> NewRun] ]
    /\ ghost = [ pipelined |-> FALSE, bound |-> FALSE, frame |-> "start",
                 fresh |-> FALSE, stale_skip |-> FALSE,
                 dead |-> [vertex |-> FALSE, index |-> FALSE, attrs |-> {}],
                 carried |-> [vertex |-> FALSE, index |-> FALSE, attrs |-> {}] ]
    /\ loop = NewLoop
    /\ glstate = NewGlState
    /\ held = <<>>

Running == last.result # "panic"

----------------------------------------------------------------------------
(* SpecCache: the GlCache buffer methods called in any order *)

\* The history after the bind_buffer invocations binds[i..]: each invocation is
\* recorded with the handle the invocation before it requested for the target
\* (run[target].h), and the run of identical requests it belongs to is counted.
RECURSIVE FoldBinds(_, _, _)
FoldBinds(h0, binds, i) ==
    IF i > Len(binds) THEN h0
    ELSE LET b == binds[i]
             r == h0.run[b.target]
             n == IF b.native THEN 1 ELSE 0
             rec == [target |-> b.target, h |-> b.h, native |-> b.native, prev |-> r.h]
             r2 == IF b.h = r.h /\ r.count > 0
                   THEN [r EXCEPT !.natives = IF @ + n > 2 THEN 2 ELSE @ + n,
                                  !.count = 2]
                   ELSE IF b.h = r.h
                   THEN [r EXCEPT !.natives = n, !.count = 1]
                   ELSE [h |-> b.h, before |-> r.h, natives |-> n, count |-> 1]
         IN  FoldBinds([h0 EXCEPT !.binds = Append(@, rec), !.run[b.target] = r2],
                       binds, i + 1)

\* A step of SpecCache: hist keeps the operation before the last one and the
\* handle its target had bound before it
CacheStep(st, op, target, arg) ==
    /\ cache' = st.cache
    /\ calls' = st.calls
    /\ oplog' = LogOf(st)
    /\ last' = [op |-> op, target |-> target, arg |-> arg, result |-> st.result]
    /\ hist' = [hist EXCEPT
                  !.prev = [op |-> last.op, target |-> last.target, pre |-> hist.pre],
                  !.pre = BoundHandle(cache, target)]
    /\ glstate' = GlStateAfter(glstate, st.calls)
    /\ UNCHANGED <<gl, buffers, textures, shaders, pipelines, passes, input, ghost, loop,
                   held>>

CacheBindBuffer(target, buffer, index_type) ==
    CacheStep(bind_buffer(Begin(cache), target, buffer, index_type),
              "bind_buffer", target, buffer)

CacheStoreBufferBinding(target) ==
    CacheStep(store_buffer_binding(Begin(cache), target), "store_buffer_binding", target, 0)

CacheRestoreBufferBinding(target) ==
    CacheStep(restore_buffer_binding(Begin(cache), target), "restore_buffer_binding", target, 0)

CacheClearBufferBindings ==
    CacheStep(clear_buffer_bindings(Begin(cache)), "clear_buffer_bindings", ARRAY_BUFFER, 0)

NextCache ==
    \/ \E target \in Targets, buffer \in OptBuffer, index_type \in OptIndexType :
          CacheBindBuffer(target, buffer, index_type)
    \/ \E target \in Targets : CacheStoreBufferBinding(target)
    \/ \E target \in Targets : CacheRestoreBufferBinding(target)
    \/ CacheClearBufferBindings

SpecCache == Init /\ [][NextCache]_vars

----------------------------------------------------------------------------
(* SpecBind: sequences of bind_buffer invocations, made directly or by the   *)
(* cache methods that call it, with the history of the requests              *)

BindStep(st, op, target, arg, in) ==
    /\ cache' = st.cache
    /\ calls' = st.calls
    /\ oplog' = LogOf(st)
    /\ last' = [op |-> op, target |-> target, arg |-> arg, result |-> st.result]
    /\ input' = in
    /\ hist' = FoldBinds([hist EXCEPT !.binds = <<>>], st.binds, 1)
    /\ glstate' = GlStateAfter(glstate, st.calls)
    /\ UNCHANGED <<gl, buffers, textures, shaders, pipelines, passes, ghost, loop, held>>

BindBuffer(target, buffer, index_type) ==
    BindStep(bind_buffer(Begin(cache), target, buffer, index_type),
             "bind_buffer", target, buffer, [index_type |-> index_type])

BindClearBufferBindings ==
    BindStep(clear_buffer_bindings(Begin(cache)), "clear_buffer_bindings", ARRAY_BUFFER, 0,
             NoInput)

BindStoreRestore(target) ==
    BindStep(restore_buffer_binding(store_buffer_binding(Begin(cache), target), target),
             "restore_buffer_binding", target, 0, NoInput)

NextBind ==
    \/ \E target \in Targets, buffer \in OptBuffer, index_type \in OptIndexType :
          BindBuffer(target, buffer, index_type)
    \/ BindClearBufferBindings
    \/ \E target \in Targets : BindStoreRestore(target)

SpecBind == Init /\ [][NextBind]_vars

----------------------------------------------------------------------------
(* Spec: the public operations of Context, Buffer, Texture, Shader, Pipeline  *)
(* and RenderPass, called in any order by one thread                          *)

MaxLen == 1          \* slices written to buffers hold 1..MaxLen elements
MaxImages == 1       \* images declared by a shader, images of a Bindings
MaxPasses == 1       \* length of the pass table
MaxHeld == 2         \* Bindings values the caller holds at a time
MaxBase == 1         \* draw's base_element is 0..MaxBase

BufferTypes == {"VertexBuffer", "IndexBuffer"}
MaxWords == 20       \* uniform structs hold 0..MaxWords 4-byte words

ElemSizes == {2, 4, 8}          \* size_of::<T>() of the element types written
StreamSizes == {4}              \* capacities of stream buffers
StructSizes == {16}             \* size_of::<U>() of the uniform struct of Spec
UniformStructSizes == {4 * w : w \in 0..MaxWords}

Tables == [shaders |-> shaders, pipelines |-> pipelines]

\* Whether a native bind on the target was issued among binds[1..n]
NativeBindBefore(binds, target, n) ==
    \E j \in 1..n : binds[j].target = target /\ binds[j].native

DeadTarget(dead, target) == IF target = ARRAY_BUFFER THEN dead.vertex ELSE dead.index

\* The operation elided a native bind, or skipped an attribute setup, on a
\* cache entry that was written before the last commit_frame and names a
\* buffer deleted after the entry was written
StaleSkip(st, dead, carried) ==
    \/ \E i \in DOMAIN st.binds :
          /\ ~st.binds[i].native
          /\ st.binds[i].h # None
          /\ DeadTarget(dead, st.binds[i].target)
          /\ DeadTarget(carried, st.binds[i].target)
          /\ ~NativeBindBefore(st.binds, st.binds[i].target, i - 1)
    \/ \E i \in DOMAIN st.slots :
          /\ st.slots[i].did = "skip"
          /\ st.slots[i].slot \in dead.attrs \cap carried.attrs

\* The entries of kept (a record of the targets and the attribute slots) that
\* the operation ending in st did not write again
NotRewritten(st, kept) ==
    [ vertex |-> /\ kept.vertex
                 /\ st.cache.vertex_buffer # None
                 /\ ~NativeBindBefore(st.binds, ARRAY_BUFFER, Len(st.binds)),
      index  |-> /\ kept.index
                 /\ st.cache.index_buffer # None
                 /\ ~NativeBindBefore(st.binds, ELEMENT_ARRAY_BUFFER, Len(st.binds)),
      attrs  |-> kept.attrs \ {st.slots[i].slot : i \in {j \in DOMAIN st.slots :
                                                          st.slots[j].did # "skip"}} ]

\* The history after an operation that ended in call state st
GhostAfter(st, op) ==
    [ pipelined  |-> ghost.pipelined \/ op = "apply_pipeline",
      bound      |-> IF op = "apply_bindings" /\ st.result = "ok" THEN TRUE
                     ELSE IF op \in {"end_render_pass", "commit_frame"} THEN FALSE
                     ELSE ghost.bound,
      frame      |-> CASE op = "commit_frame" -> "committed"
                       [] op = "apply_pipeline" /\ ghost.frame = "committed" -> "pipelined"
                       [] op = "apply_bindings" -> "running"
                       [] OTHER -> ghost.frame,
      fresh      |-> op = "apply_bindings" /\ ghost.frame = "pipelined",
      stale_skip |-> StaleSkip(st, ghost.dead, ghost.carried),
      dead       |-> NotRewritten(st, ghost.dead),
      carried    |-> IF op = "commit_frame"
                     THEN [ vertex |-> st.cache.vertex_buffer # None,
                            index  |-> st.cache.index_buffer # None,
                            attrs  |-> {ix \in DOMAIN st.cache.attributes :
                                          IsSome(st.cache.attributes[ix])} ]
                     ELSE NotRewritten(st, ghost.carried) ]

\* The driver's bound framebuffer after the native calls of an operation
RECURSIVE FramebufferAfter(_, _)
FramebufferAfter(fb, cs) ==
    IF cs = <<>> THEN fb
    ELSE FramebufferAfter(IF Head(cs)[1] = "bind_framebuffer" THEN Head(cs)[3] ELSE fb,
                          Tail(cs))

\* A step of Spec that ends in call state st, called with the arguments in
StepWith(st, op, target, arg, in) ==
    /\ cache' = st.cache
    /\ calls' = st.calls
    /\ oplog' = LogOf(st)
    /\ last' = [op |-> op, target |-> target, arg |-> arg, result |-> st.result]
    /\ input' = in
    /\ ghost' = GhostAfter(st, op)
    /\ glstate' = GlStateAfter(glstate, st.calls)
    /\ UNCHANGED <<hist, loop, held>>

Step(st, op, target, arg) == StepWith(st, op, target, arg, NoInput)

\* Buffer::immutable(ctx, buffer_type, data: &[T]) with size_of::<T>() = elem
BufferImmutable(buffer_type, elem, len) ==
    /\ Running
    /\ LET index_type == IF buffer_type = "IndexBuffer"
                         THEN IndexTypeForSize(elem) ELSE NoIndexType
           gl_target == gl_buffer_target(buffer_type)
       IN  IF index_type = "panic"
           THEN /\ Step(Panic(Begin(cache)), "Buffer::immutable", gl_target, 0)
                /\ UNCHANGED <<gl, buffers, textures, shaders, pipelines, passes>>
           ELSE \E gl_buf \in BufferNames \ gl.buffers :
                /\ Step(scoped_buffer_bind(Begin(cache), gl_target, gl_buf, index_type,
                                           "buffer_data_u8_slice"),
                        "Buffer::immutable", gl_target, gl_buf)
                /\ gl' = [gl EXCEPT !.buffers = @ \cup {gl_buf}]
                /\ buffers' = buffers \cup
                      {[ gl_buf |-> gl_buf, buffer_type |-> buffer_type,
                         size |-> elem * len, index_type |-> index_type ]}
                /\ UNCHANGED <<textures, shaders, pipelines, passes>>

\* Buffer::stream(ctx, buffer_type, size)
BufferStream(buffer_type, size) ==
    /\ Running
    /\ \E gl_buf \in BufferNames \ gl.buffers :
         LET gl_target == gl_buffer_target(buffer_type)
         IN  /\ Step(scoped_buffer_bind(Begin(cache), gl_target, gl_buf, NoIndexType,
                                        "buffer_data_size"),
                     "Buffer::stream", gl_target, gl_buf)
             /\ gl' = [gl EXCEPT !.buffers = @ \cup {gl_buf}]
             /\ buffers' = buffers \cup
                   {[ gl_buf |-> gl_buf, buffer_type |-> buffer_type, size |-> size,
                      index_type |-> IF buffer_type = "IndexBuffer"
                                     THEN "Short" ELSE NoIndexType ]}
             /\ UNCHANGED <<textures, shaders, pipelines, passes>>

\* Buffer::index_stream(ctx, index_type, size)
BufferIndexStream(index_type, size) ==
    /\ Running
    /\ \E gl_buf \in BufferNames \ gl.buffers :
         /\ Step(scoped_buffer_bind(Begin(cache), ELEMENT_ARRAY_BUFFER, gl_buf, NoIndexType,
                                    "buffer_data_size"),
                 "Buffer::index_stream", ELEMENT_ARRAY_BUFFER, gl_buf)
         /\ gl' = [gl EXCEPT !.buffers = @ \cup {gl_buf}]
         /\ buffers' = buffers \cup
               {[ gl_buf |-> gl_buf, buffer_type |-> "IndexBuffer", size |-> size,
                  index_type |-> index_type ]}
         /\ UNCHANGED <<textures, shaders, pipelines, passes>>

\* Assertions on the byte size alone
buffer_update_asserts_size_only(buf, elem, len) ==
    elem * len <= buf.size

\* The assertions of Buffer::update
buffer_update_asserts(buf, elem, len) ==
    /\ buf.buffer_type = "IndexBuffer" =>
          (buf.index_type # NoIndexType /\ buf.index_type = IndexTypeForSize(elem))
    /\ elem * len <= buf.size

\* Buffer::update(&self, ctx, data: &[T]) with size_of::<T>() = elem
BufferUpdate(buf, elem, len) ==
    /\ Running
    /\ LET gl_target == gl_buffer_target(buf.buffer_type)
       IN  IF buffer_update_asserts(buf, elem, len)
           THEN StepWith(scoped_buffer_bind(Begin(cache), gl_target, buf.gl_buf,
                                            buf.index_type, "buffer_sub_data_u8_slice"),
                         "Buffer::update", gl_target, buf.gl_buf,
                         [buf |-> buf, elem |-> elem, len |-> len])
           ELSE StepWith(Panic(Begin(cache)), "Buffer::update", gl_target, buf.gl_buf,
                         [buf |-> buf, elem |-> elem, len |-> len])
    /\ UNCHANGED <<gl, buffers, textures, shaders, pipelines, passes>>

\* Buffer::delete(&self); the caller drops the Buffer.  The cache is not told:
\* the entries naming the buffer are from now on entries for a deleted buffer.
BufferDelete(buf) ==
    /\ Running
    /\ cache' = cache
    /\ calls' = << Call("delete_buffer", "buffer", buf.gl_buf) >>
    /\ oplog' = NoLog
    /\ last' = [op |-> "Buffer::delete", target |-> gl_buffer_target(buf.buffer_type),
                arg |-> buf.gl_buf, result |-> "ok"]
    /\ gl' = [gl EXCEPT !.buffers = @ \ {buf.gl_buf}]
    /\ glstate' = GlStateAfter(glstate, << Call("delete_buffer", "buffer", buf.gl_buf) >>)
    /\ buffers' = buffers \ {buf}
    /\ ghost' = [ghost EXCEPT
          !.fresh = FALSE,
          !.stale_skip = FALSE,
          !.dead = [ vertex |-> @.vertex \/ cache.vertex_buffer = buf.gl_buf,
                     index  |-> @.index \/ cache.index_buffer = buf.gl_buf,
                     attrs  |-> @.attrs \cup
                                {ix \in DOMAIN cache.attributes :
                                    /\ IsSome(cache.attributes[ix])
                                    /\ Unwrap(cache.attributes[ix]).gl_vbuf = buf.gl_buf} ]]
    /\ UNCHANGED <<textures, shaders, pipelines, passes, input, hist, loop, held>>

\* Texture::new(ctx, access, bytes, params, kind) and from_data_and_format
TextureNew(kind, params, bytes) ==
    /\ Running
    /\ \E texture \in TextureNames \ gl.textures :
         LET st == texture_new(Begin(cache), texture, bytes, params, kind)
         IN  /\ StepWith(st, "Texture::new", TextureTarget(kind),
                         IF st.result = "ok" THEN texture ELSE None,
                         [params |-> params, bytes |-> bytes, kind |-> kind])
             /\ gl' = TexturesAfter(gl, st.calls, st.uploads)
             /\ textures' = IF st.result # "ok" THEN textures
                            ELSE textures \cup
                                   {[ texture |-> texture, width |-> params.width,
                                      height |-> params.height, depth |-> params.depth,
                                      format |-> params.format, kind |-> kind ]}
    /\ UNCHANGED <<buffers, shaders, pipelines, passes>>

\* Texture::new_render_texture(ctx, params): Texture::new without bytes
TextureNewRender ==
    TextureNew("Texture2D",
               [format |-> "RGBA8", width |-> 1, height |-> 1, depth |-> 1], <<>>)

\* Texture::from_rgba8(ctx, width, height, depth, bytes, kind)
TextureFromRgba8(width, height, depth, bytes, kind) ==
    /\ Running
    /\ \E texture \in TextureNames \ gl.textures :
         LET st == texture_from_rgba8(Begin(cache), texture, width, height, depth, bytes, kind)
         IN  /\ StepWith(st, "Texture::from_rgba8", TextureTarget(kind),
                         IF st.result = "ok" THEN texture ELSE None,
                         [ params |-> [format |-> "RGBA8", width |-> width,
                                       height |-> height, depth |-> depth],
                           bytes |-> Some(bytes), kind |-> kind ])
             /\ gl' = TexturesAfter(gl, st.calls, st.uploads)
             /\ textures' = IF st.result # "ok" THEN textures
                            ELSE textures \cup
                                   {[ texture |-> texture, width |-> width,
                                      height |-> height, depth |-> depth,
                                      format |-> "RGBA8", kind |-> kind ]}
    /\ UNCHANGED <<buffers, shaders, pipelines, passes>>

\* A step of a &self method of Texture, called with bytes, that ends in call
\* state st
TextureStep(st, op, tex, bytes) ==
    /\ Running
    /\ StepWith(st, op, TextureTarget(tex.kind), tex.texture, [tex |-> tex, bytes |-> bytes])
    /\ gl' = TexturesAfter(gl, st.calls, st.uploads)
    /\ UNCHANGED <<buffers, textures, shaders, pipelines, passes>>

\* Texture::set_filter(&self, ctx, filter)
TextureSetFilter(tex) ==
    TextureStep(texture_set_filter(Begin(cache), tex), "Texture::set_filter", tex, <<>>)

\* Texture::update_texture_part(&self, ctx, x_offset, y_offset, 0, width,
\* height, depth, bytes)
TextureUpdatePart(tex, x_offset, y_offset, width, height, depth, bytes) ==
    TextureStep(update_texture_part(Begin(cache), tex, x_offset, y_offset,
                                    width, height, depth, bytes),
                "Texture::update_texture_part", tex, Some(bytes))

\* Texture::update(&self, ctx, bytes)
TextureUpdate(tex, bytes) ==
    TextureStep(texture_update(Begin(cache), tex, bytes), "Texture::update", tex, Some(bytes))

\* Texture::delete(&self); the caller drops the Texture.  The cache is not told.
TextureDelete(tex) ==
    /\ Running
    /\ LET st == texture_delete(Begin(cache), tex)
       IN  /\ Step(st, "Texture::delete", TextureTarget(tex.kind), tex.texture)
           /\ gl' = TexturesAfter(gl, st.calls, st.uploads)
    /\ textures' = textures \ {tex}
    /\ UNCHANGED <<buffers, shaders, pipelines, passes>>

\* Texture::resize(&mut self, ctx, width, height, bytes); the caller's Texture
\* takes the new width and height
TextureResize(tex, width, height, bytes) ==
    /\ Running
    /\ LET st == texture_resize(Begin(cache), tex, width, height, bytes)
       IN  /\ StepWith(st, "Texture::resize", TextureTarget(tex.kind), tex.texture,
                       [tex |-> tex, width |-> width, height |-> height, bytes |-> bytes])
           /\ gl' = TexturesAfter(gl, st.calls, st.uploads)
    /\ textures' = (textures \ {tex}) \cup {[tex EXCEPT !.width = width, !.height = height]}
    /\ UNCHANGED <<buffers, shaders, pipelines, passes>>

\* drop(bindings): the buffers and textures it holds are deleted; the cache is
\* not told.  What becomes of held is said where the action is used.
BindingsDrop(bindings) ==
    /\ Running
    /\ LET st == bindings_drop(Begin(cache), bindings)
           gone == {bindings.vertex_buffers[n].gl_buf : n \in DOMAIN bindings.vertex_buffers}
                      \cup {bindings.index_buffer.gl_buf}
       IN  /\ cache' = st.cache
           /\ calls' = st.calls
           /\ oplog' = LogOf(st)
           /\ last' = [op |-> "Bindings::drop", target |-> "",
                       arg |-> bindings.index_buffer.gl_buf, result |-> st.result]
           /\ input' = bindings
           /\ gl' = [TexturesAfter(gl, st.calls, st.uploads) EXCEPT !.buffers = @ \ gone]
           /\ glstate' = GlStateAfter(glstate, st.calls)
           /\ buffers' = {b \in buffers : b.gl_buf \notin gone}
           /\ textures' = textures \ {bindings.images[n] : n \in DOMAIN bindings.images}
           /\ ghost' = [ghost EXCEPT
                 !.fresh = FALSE,
                 !.stale_skip = FALSE,
                 !.dead = [ vertex |-> @.vertex \/ cache.vertex_buffer \in gone,
                            index  |-> @.index \/ cache.index_buffer \in gone,
                            attrs  |-> @.attrs \cup
                                       {ix \in DOMAIN cache.attributes :
                                           /\ IsSome(cache.attributes[ix])
                                           /\ Unwrap(cache.attributes[ix]).gl_vbuf \in gone} ]]
    /\ UNCHANGED <<shaders, pipelines, passes, hist, loop>>

\* A step of the caller that leaves the caller holding the Bindings values h
\* and reaches neither the Context nor the driver
HoldStep(op, h, in) ==
    /\ Running
    /\ held' = h
    /\ calls' = <<>>
    /\ oplog' = NoLog
    /\ last' = [op |-> op, target |-> "", arg |-> Len(h), result |-> "ok"]
    /\ input' = in
    /\ UNCHANGED <<cache, gl, glstate, shaders, pipelines, passes, hist, ghost, loop>>

\* Bindings { vertex_buffers, index_buffer, images }: the Buffer and Texture
\* values move into the struct
BindingsNew(bindings) ==
    /\ Len(held) < MaxHeld
    /\ HoldStep("Bindings::new", Append(held, bindings), bindings)
    /\ buffers' = buffers \ ({bindings.vertex_buffers[n] : n \in DOMAIN bindings.vertex_buffers}
                                \cup {bindings.index_buffer})
    /\ textures' = textures \ {bindings.images[n] : n \in DOMAIN bindings.images}

\* bindings.clone(), the derived Clone: the clone holds the same native handles
BindingsClone(i) ==
    /\ Len(held) < MaxHeld
    /\ i \in DOMAIN held
    /\ HoldStep("Bindings::clone", Append(held, held[i]), held[i])
    /\ UNCHANGED <<buffers, textures>>

\* RenderPass::texture(&self, ctx): a clone of the pass's color texture
RenderPassTexture(pass) ==
    /\ Running
    /\ pass \in DOMAIN passes
    /\ textures' = textures \cup {passes[pass].texture}
    /\ Step(Begin(cache), "RenderPass::texture", "", pass)
    /\ UNCHANGED <<gl, buffers, shaders, pipelines, passes>>

\* RenderPass::delete(&self, ctx), of a pass made without a depth texture: the
\* framebuffer and the color texture are deleted, the pass stays in the table
RenderPassDelete(pass) ==
    /\ Running
    /\ pass \in DOMAIN passes
    /\ LET st == texture_delete(
                    Calls(Begin(cache),
                          << Call("delete_framebuffer", "framebuffer", passes[pass].gl_fb) >>),
                    passes[pass].texture)
       IN  /\ Step(st, "RenderPass::delete", "", pass)
           /\ gl' = [TexturesAfter(gl, st.calls, st.uploads)
                       EXCEPT !.framebuffers = @ \ {passes[pass].gl_fb}]
    /\ UNCHANGED <<buffers, textures, shaders, pipelines, passes>>

\* The names the driver gives framebuffers: one per pass and one for the
\* framebuffer read_pixels creates
FramebufferNames == 1..(MaxPasses + 1)

\* Texture::read_pixels(&self, bytes): the pixels come from the image the
\* driver holds for the texture object; when the name is no texture object
\* the framebuffer is incomplete and nothing is read (data 0).  The slice is
\* recorded in the log as the driver left it.
TextureReadPixels(tex) ==
    /\ Running
    /\ IF tex.kind # "Texture2D"
       THEN /\ StepWith(Panic(Begin(cache)), "Texture::read_pixels",
                        TextureTarget(tex.kind), tex.texture, [tex |-> tex, bytes |-> <<>>])
            /\ gl' = gl
       ELSE \E new_fb \in FramebufferNames \ gl.framebuffers :
              LET current_fb == gl.framebuffer
                  region == tex.width * tex.height
                  complete == tex.texture \in gl.objects /\ gl.image[tex.texture].size > 0
                  read == IF complete /\ region <= gl.image[tex.texture].size
                          THEN gl.image[tex.texture].data ELSE 0
                  st == [Begin(cache) EXCEPT
                           !.calls = << Call("create_framebuffer", "framebuffer", new_fb),
                                        Call("bind_framebuffer", "FRAMEBUFFER", new_fb),
                                        Call("framebuffer_texture_2d", "COLOR_ATTACHMENT0",
                                             tex.texture),
                                        Call("read_pixels", "FRAMEBUFFER", region),
                                        Call("bind_framebuffer", "FRAMEBUFFER", current_fb),
                                        Call("delete_framebuffer", "framebuffer", new_fb) >>,
                           !.uploads = << [f |-> "read_pixels", target |-> "FRAMEBUFFER",
                                           region |-> region,
                                           len |-> region * BytesPerPixel(tex.format),
                                           data |-> read] >>]
              IN  /\ StepWith(st, "Texture::read_pixels", "TEXTURE_2D", tex.texture,
                               [tex |-> tex, bytes |-> <<>>])
                  /\ gl' = [gl EXCEPT !.framebuffer = FramebufferAfter(@, st.calls)]
    /\ UNCHANGED <<buffers, textures, shaders, pipelines, passes>>

\* Shader::new(ctx, vertex_shader, fragment_shader, meta), while the shader
\* table holds fewer than max entries; driver is what the driver makes of the
\* two sources, and the call returns Err unless all builds.
ShaderNewUpTo(meta, driver, image_locs, uniform_locs, max) ==
    /\ Running
    /\ Len(shaders) < max
    /\ LET st == load_shader_internal(Begin(cache), Len(shaders) + 1, driver)
           in == [meta |-> meta, driver |-> driver]
       IN  IF st.result = "ok"
           THEN /\ shaders' = Append(shaders,
                       ShaderInternal(Len(shaders) + 1, meta, image_locs, uniform_locs))
                /\ StepWith(st, "Shader::new", "", Len(shaders) + 1, in)
           ELSE /\ shaders' = shaders
                /\ StepWith(st, "Shader::new", "", 0, in)
    /\ UNCHANGED <<gl, buffers, textures, pipelines, passes>>

\* Shader::new(ctx, vertex_shader, fragment_shader, meta)
ShaderNew(meta, driver, image_locs, uniform_locs) ==
    ShaderNewUpTo(meta, driver, image_locs, uniform_locs, MaxShaders)

\* Pipeline::with_params(ctx, buffer_layout, attributes, shader, params), while
\* the pipeline table holds fewer than max entries
PipelineWithParams(buffer_layout, attributes, shader, locs, params, max) ==
    /\ Running
    /\ Len(pipelines) < max
    /\ shader \in DOMAIN shaders
    /\ LET pip == with_params(buffer_layout, attributes, shader, locs, params)
           in == [buffer_layout |-> buffer_layout, attributes |-> attributes, locs |-> locs]
       IN  IF ~pip.ok
           THEN /\ pipelines' = pipelines
                /\ StepWith(Panic(Begin(cache)), "Pipeline::new", "", 0, in)
           ELSE /\ pipelines' = Append(pipelines, pip.pipeline)
                /\ StepWith(Begin(cache), "Pipeline::new", "", Len(pipelines) + 1, in)
    /\ UNCHANGED <<gl, buffers, textures, shaders, passes>>

\* Pipeline::set_blend(&self, ctx, color_blend): the color blend parameter of
\* the pipeline is replaced, its alpha blend parameter stays
PipelineSetBlend(pipeline, color_blend) ==
    /\ Running
    /\ pipeline \in DOMAIN pipelines
    /\ pipelines' = [pipelines EXCEPT ![pipeline].params.color_blend = color_blend]
    /\ StepWith(Begin(cache), "Pipeline::set_blend", "", pipeline,
                [color_blend |-> color_blend])
    /\ UNCHANGED <<gl, buffers, textures, shaders, passes>>

\* Pipeline::new(ctx, buffer_layout, attributes, shader)
PipelineNew(buffer_layout, attributes, shader, locs) ==
    PipelineWithParams(buffer_layout, attributes, shader, locs, DefaultParams, MaxPipelines)

\* RenderPass::new(ctx, color_img, None)
RenderPassNew(color_img) ==
    /\ Running
    /\ Len(passes) < MaxPasses
    /\ \E gl_fb \in (1..MaxPasses) \ gl.framebuffers :
         LET st == [Begin(cache) EXCEPT
                      !.calls = << Call("bind_framebuffer", "FRAMEBUFFER", gl_fb),
                                   Call("framebuffer_texture_2d", "COLOR_ATTACHMENT0",
                                        color_img.texture),
                                   Call("bind_framebuffer", "FRAMEBUFFER",
                                        DefaultFramebuffer) >>]
         IN  /\ Step(st, "RenderPass::new", "", gl_fb)
             /\ gl' = [gl EXCEPT !.framebuffers = @ \cup {gl_fb},
                                 !.framebuffer = FramebufferAfter(@, st.calls)]
             /\ passes' = Append(passes, [gl_fb |-> gl_fb, texture |-> color_img])
    /\ UNCHANGED <<buffers, textures, shaders, pipelines>>

\* Context::apply_pipeline(&pipeline)
ApplyPipeline(pipeline) ==
    /\ Running
    /\ pipeline \in DOMAIN pipelines
    /\ Step(apply_pipeline(Begin(cache), Tables, pipeline), "apply_pipeline", "", pipeline)
    /\ UNCHANGED <<gl, buffers, textures, shaders, pipelines, passes>>

\* Context::apply_bindings(&bindings)
ApplyBindings(bindings) ==
    /\ Running
    /\ LET st == apply_bindings(Begin(cache), Tables, bindings)
       IN  /\ StepWith(st, "apply_bindings", "", bindings.index_buffer.gl_buf, bindings)
           /\ gl' = TexturesAfter(gl, st.calls, st.uploads)
    /\ UNCHANGED <<buffers, textures, shaders, pipelines, passes>>

\* Context::apply_uniforms(&uniforms) with size_of::<U>() = size
ApplyUniforms(size, overflow_checks) ==
    /\ Running
    /\ Step(apply_uniforms(Begin(cache), Tables, size, overflow_checks),
            "apply_uniforms", "", size)
    /\ UNCHANGED <<gl, buffers, textures, shaders, pipelines, passes>>

\* Context::begin_pass(pass, action); pass 0 is None, clear says which of the
\* color, depth and stencil values the action holds
BeginPass(pass, clear) ==
    /\ Running
    /\ LET framebuffer == IF pass = 0 THEN DefaultFramebuffer ELSE passes[pass].gl_fb
           bits == {b \in {"color", "depth", "stencil"} : clear[b]}
           st == [Begin(cache) EXCEPT
                    !.calls = << Call("bind_framebuffer", "FRAMEBUFFER", framebuffer),
                                 Call("viewport", "", 0), Call("scissor", "", 0) >>
                              \o (IF clear["color"] THEN <<Call("clear_color", "", 0)>> ELSE <<>>)
                              \o (IF clear["depth"] THEN <<Call("clear_depth_f32", "", 0)>> ELSE <<>>)
                              \o (IF clear["stencil"] THEN <<Call("clear_stencil", "", 0)>> ELSE <<>>)
                              \o (IF bits # {} THEN <<Call("clear", "", Cardinality(bits))>>
                                  ELSE <<>>)]
       IN  /\ Step(st, "begin_pass", "", pass)
           /\ gl' = [gl EXCEPT !.framebuffer = FramebufferAfter(@, st.calls)]
    /\ UNCHANGED <<buffers, textures, shaders, pipelines, passes>>

\* Context::end_render_pass()
EndRenderPass ==
    /\ Running
    /\ LET st == end_render_pass(Begin(cache))
       IN  /\ Step(st, "end_render_pass", "", 0)
           /\ gl' = [gl EXCEPT !.framebuffer = FramebufferAfter(@, st.calls)]
    /\ UNCHANGED <<buffers, textures, shaders, pipelines, passes>>

\* Context::commit_frame()
CommitFrame ==
    /\ Running
    /\ LET st == commit_frame(Begin(cache))
       IN  /\ Step(st, "commit_frame", "", 0)
           /\ gl' = TexturesAfter(gl, st.calls, st.uploads)
    /\ UNCHANGED <<buffers, textures, shaders, pipelines, passes>>

\* Context::draw(base_element, num_elements, num_instances)
Draw(base_element) ==
    /\ Running
    /\ Step(draw(Begin(cache), base_element), "draw", "", base_element)
    /\ UNCHANGED <<gl, buffers, textures, shaders, pipelines, passes>>

(* The inputs of the specifications *)

\* Shader metadata with k images and the given uniforms
ShaderMeta(k, uniforms) == [images |-> [n \in 1..k |-> "tex"], uniforms |-> uniforms]

Uniform(uniform_type, array_count) ==
    [name |-> "u", uniform_type |-> uniform_type, array_count |-> array_count]

AllLocated(len) == [n \in 1..len |-> Some(n)]

\* The attribute list "pos" over one buffer with the default layout, found by
\* the driver at location 0
PosAttributes == << [name |-> "pos", format |-> "Float2", buffer_index |-> 0] >>

AttribLocations(attributes) == [n \in 1..Len(attributes) |-> Some(n - 1)]

\* The Texture values the caller can hold: the live textures and Texture::empty
CallerTextures == textures \cup {EmptyTexture}

SeqsUpTo(S, n) == UNION {[1..k -> S] : k \in 0..n}

\* The Bindings the caller can build from the buffers it holds: vertex buffers
\* in the vertex list, an index buffer as the index buffer
CallerBindings ==
    [ vertex_buffers : SeqsUpTo({b \in buffers : b.buffer_type = "VertexBuffer"}, 1),
      index_buffer   : {b \in buffers : b.buffer_type = "IndexBuffer"},
      images         : SeqsUpTo(CallerTextures, MaxImages) ]

NoClear == [b \in {"color", "depth", "stencil"} |-> FALSE]
DefaultClear == [b \in {"color", "depth", "stencil"} |-> b # "stencil"]

\* Spec: buffers of both kinds created, updated and bound, and draws, around
\* one shader without images and one pipeline
Next ==
    \/ \E driver \in {AllBuilt, [AllBuilt EXCEPT !.link = FALSE]} :
          ShaderNew(ShaderMeta(0, <<Uniform("Float4", 1)>>), driver, <<>>, AllLocated(1))
    \/ \E shader \in DOMAIN shaders :
          PipelineNew(<<DefaultBufferLayout>>, PosAttributes, shader,
                      AttribLocations(PosAttributes))
    \/ \E pipeline \in DOMAIN pipelines : ApplyPipeline(pipeline)
    \/ \E buffer_type \in BufferTypes, elem \in ElemSizes, len \in 1..MaxLen :
          BufferImmutable(buffer_type, elem, len)
    \/ \E buffer_type \in BufferTypes, size \in StreamSizes : BufferStream(buffer_type, size)
    \/ \E index_type \in {"Int"}, size \in StreamSizes : BufferIndexStream(index_type, size)
    \/ \E buf \in buffers, elem \in ElemSizes, len \in 1..MaxLen : BufferUpdate(buf, elem, len)
    \/ \E bindings \in CallerBindings : ApplyBindings(bindings)
    \/ \E size \in StructSizes, overflow_checks \in BOOLEAN : ApplyUniforms(size, overflow_checks)
    \/ EndRenderPass
    \/ CommitFrame
    \/ \E base_element \in 0..MaxBase : Draw(base_element)

Spec == Init /\ [][Next]_vars

\* SpecFrame: frames over textures, passes and buffers that are deleted and
\* created again
NextFrame ==
    \/ ShaderNew(ShaderMeta(1, <<>>), AllBuilt, AllLocated(1), <<>>)
    \/ \E shader \in DOMAIN shaders :
          PipelineNew(<<DefaultBufferLayout>>, PosAttributes, shader,
                      AttribLocations(PosAttributes))
    \/ \E pipeline \in DOMAIN pipelines : ApplyPipeline(pipeline)
    \/ BufferImmutable("VertexBuffer", 4, 1)
    \/ BufferImmutable("IndexBuffer", 2, 1)
    \/ \E buf \in buffers : BufferDelete(buf)
    \/ TextureNewRender
    \/ \E color_img \in textures : RenderPassNew(color_img)
    \/ \E bindings \in CallerBindings : ApplyBindings(bindings)
    \/ \E pass \in 0..Len(passes) : BeginPass(pass, IF pass = 0 THEN DefaultClear ELSE NoClear)
    \/ EndRenderPass
    \/ CommitFrame

SpecFrame == Init /\ [][NextFrame]_vars

\* SpecUniforms: uniform blocks of several layouts applied from structs of
\* several sizes
UniformLists ==
    { <<Uniform("Float4", 1)>>,
      <<Uniform("Float4", 1), Uniform("Float4", 1)>>,
      <<Uniform("Float1", 1), Uniform("Mat4", 1)>>,
      <<Uniform("Int2", 2), Uniform("Float3", 1)>>,
      <<Uniform("Int4", 1), Uniform("Float2", 1)>>,
      <<Uniform("Int1", 2), Uniform("Int3", 1)>> }

NextUniforms ==
    \/ \E uniforms \in UniformLists, driver \in {AllBuilt, [AllBuilt EXCEPT !.link = FALSE]} :
          \E uniform_locs \in [1..Len(uniforms) -> {<<>>, Some(1)}] :
             ShaderNew(ShaderMeta(0, uniforms), driver, <<>>, uniform_locs)
    \/ \E shader \in DOMAIN shaders :
          PipelineNew(<<DefaultBufferLayout>>, PosAttributes, shader,
                      AttribLocations(PosAttributes))
    \/ \E pipeline \in DOMAIN pipelines : ApplyPipeline(pipeline)
    \/ \E size \in UniformStructSizes, overflow_checks \in BOOLEAN :
          ApplyUniforms(size, overflow_checks)

SpecUniforms == Init /\ [][NextUniforms]_vars

\* SpecTexture: RGBA8 2D textures created, updated, deleted and bound to the
\* two image slots of one shader
MaxDim == 2          \* widths and depths of textures are 1..MaxDim

ByteSlices == [len : {4 * n : n \in 1..(MaxDim + 1)}, data : {1}]

RGBA8Params(width) == [format |-> "RGBA8", width |-> width, height |-> 1, depth |-> 1]

NextTexture ==
    \/ ShaderNew(ShaderMeta(2, <<>>), AllBuilt, AllLocated(2), <<>>)
    \/ \E shader \in DOMAIN shaders : PipelineNew(<<DefaultBufferLayout>>, <<>>, shader, <<>>)
    \/ \E pipeline \in DOMAIN pipelines : ApplyPipeline(pipeline)
    \/ buffers = {} /\ BufferImmutable("IndexBuffer", 2, 1)
    \/ \E bindings \in [ vertex_buffers : {<<>>},
                         index_buffer   : {b \in buffers : b.buffer_type = "IndexBuffer"},
                         images         : [1..2 -> CallerTextures] ] :
          ApplyBindings(bindings)
    \/ \E width \in 1..MaxDim : TextureNew("Texture2D", RGBA8Params(width), <<>>)
    \/ \E tex \in CallerTextures : TextureSetFilter(tex)
    \/ \E tex \in CallerTextures, x_offset \in 0..1, width \in 1..MaxDim :
          \E bytes \in ByteSlices :
             TextureUpdatePart(tex, x_offset, 0, width, 1, 1, bytes)
    \/ \E tex \in CallerTextures, bytes \in ByteSlices : TextureUpdate(tex, bytes)
    \/ \E tex \in textures : TextureDelete(tex)
    \/ CommitFrame

SpecTexture == Init /\ [][NextTexture]_vars

\* SpecReadback: RGBA8 2D textures updated and read back, on the default
\* framebuffer and inside a pass, also after having been bound as images
NextReadback ==
    \/ ShaderNew(ShaderMeta(1, <<>>), AllBuilt, AllLocated(1), <<>>)
    \/ \E shader \in DOMAIN shaders : PipelineNew(<<DefaultBufferLayout>>, <<>>, shader, <<>>)
    \/ \E pipeline \in DOMAIN pipelines : ApplyPipeline(pipeline)
    \/ buffers = {} /\ BufferImmutable("IndexBuffer", 2, 1)
    \/ \E bindings \in CallerBindings : ApplyBindings(bindings)
    \/ \E width \in 1..MaxDim : TextureNew("Texture2D", RGBA8Params(width), <<>>)
    \/ \E tex \in textures, bytes \in [len : {4 * n : n \in 1..MaxDim}, data : {1, 2}] :
          TextureUpdate(tex, bytes)
    \/ \E tex \in textures : TextureDelete(tex)
    \/ \E tex \in textures : TextureReadPixels(tex)
    \/ \E color_img \in textures : RenderPassNew(color_img)
    \/ \E pass \in 0..Len(passes) : BeginPass(pass, NoClear)

SpecReadback == Init /\ [][NextReadback]_vars

\* SpecTextureNew: textures of every kind and size created, with and without
\* initial bytes, and deleted
CreationSlices == [len : {1, 2, 4, 8, 16}, data : {1, 2}]

NextTextureNew ==
    \/ \E kind \in TextureKinds,
          params \in [ format : {"RGBA8", "Alpha"}, width : 1..MaxDim, height : {1},
                       depth : 1..MaxDim ] :
          \E bytes \in {<<>>} \cup {Some(b) : b \in CreationSlices} :
             TextureNew(kind, params, bytes)
    \/ \E width \in 1..MaxDim, depth \in 1..MaxDim, bytes \in CreationSlices,
          kind \in TextureKinds :
          TextureFromRgba8(width, 1, depth, bytes, kind)
    \/ \E tex \in textures : TextureDelete(tex)

SpecTextureNew == Init /\ [][NextTextureNew]_vars

\* SpecLayout: pipelines built from attribute lists of several formats over
\* two buffers with declared or accumulated strides
MaxAttrs == 4        \* at most MaxAttrs attributes in a list

LayoutAttributes ==
    SeqsUpTo([ name : {"a"}, format : {"Float2", "Byte4", "Float4", "Mat4"},
               buffer_index : {0, 1} ], MaxAttrs)

LayoutBufferLayouts ==
    [1..2 -> [stride : {0, 255, 256}, step_func : {"PerVertex"}, step_rate : {1}]]

\* The driver's locations for attributes declared in order: a Mat4 takes four.
\* In NextLayout the first attribute is also taken as optimised out of the
\* program, and the program as having one more attribute, at location 0, that
\* the pipeline does not declare.
RECURSIVE RowLocation(_, _)
RowLocation(attributes, n) ==
    IF n = 1 THEN 0
    ELSE RowLocation(attributes, n - 1)
           + (IF attributes[n - 1].format = "Mat4" THEN 4 ELSE 1)

RowLocations(attributes) ==
    [n \in 1..Len(attributes) |-> Some(RowLocation(attributes, n))]

NextLayout ==
    \/ ShaderNew(ShaderMeta(0, <<>>), AllBuilt, <<>>, <<>>)
    \/ /\ Running /\ Len(pipelines) < MaxPipelines
       /\ \E shader \in DOMAIN shaders, buffer_layout \in LayoutBufferLayouts,
             attributes \in LayoutAttributes :
             \E locs \in { RowLocations(attributes),
                            [n \in DOMAIN attributes |->
                               IF n = 1 THEN <<>> ELSE RowLocations(attributes)[n]],
                            [n \in DOMAIN attributes |->
                               Some(RowLocation(attributes, n) + 1)] } :
                PipelineNew(buffer_layout, attributes, shader, locs)

SpecLayout == Init /\ [][NextLayout]_vars

\* SpecImages: shaders declaring 0..MaxSlots images, located by the driver or
\* not, and bindings carrying 0..MaxSlots images
MaxSlots == 3        \* a shader declares, and bindings carry, at most MaxSlots images

NextImages ==
    \/ \E k \in 0..MaxSlots :
          \E image_locs \in [1..k -> {<<>>, Some(1)}] :
             ShaderNew(ShaderMeta(k, <<>>), AllBuilt, image_locs, <<>>)
    \/ \E shader \in DOMAIN shaders : PipelineNew(<<DefaultBufferLayout>>, <<>>, shader, <<>>)
    \/ \E pipeline \in DOMAIN pipelines : ApplyPipeline(pipeline)
    \/ buffers = {} /\ BufferImmutable("IndexBuffer", 2, 1)
    \/ TextureNewRender
    \/ \E bindings \in [ vertex_buffers : {<<>>},
                         index_buffer   : {b \in buffers : b.buffer_type = "IndexBuffer"},
                         images         : SeqsUpTo(CallerTextures, MaxSlots) ] :
          ApplyBindings(bindings)

SpecImages == Init /\ [][NextImages]_vars

\* SpecShader: shaders of 0..MaxSlots images created from sources that the
\* driver compiles and links or not
NextShader ==
    \/ \E k \in 0..MaxSlots, driver \in DriverAnswers,
          uniforms \in {<<>>, <<Uniform("Float4", 1)>>} :
          \E image_locs \in [1..k -> {<<>>, Some(1)}] :
             ShaderNew(ShaderMeta(k, uniforms), driver, image_locs, AllLocated(Len(uniforms)))
    \/ \E shader \in DOMAIN shaders : PipelineNew(<<DefaultBufferLayout>>, <<>>, shader, <<>>)
    \/ \E pipeline \in DOMAIN pipelines : ApplyPipeline(pipeline)

SpecShader == Init /\ [][NextShader]_vars

\* SpecDrop: bindings built from the caller's buffers and textures, applied,
\* and dropped
NextDrop ==
    \/ \E buffer_type \in BufferTypes : BufferImmutable(buffer_type, 2, 1)
    \/ TextureNewRender
    \/ \E bindings \in [ vertex_buffers : SeqsUpTo({b \in buffers :
                                                     b.buffer_type = "VertexBuffer"}, 2),
                         index_buffer   : {b \in buffers : b.buffer_type = "IndexBuffer"},
                         images         : SeqsUpTo(CallerTextures, 2) ] :
          BindingsDrop(bindings) /\ UNCHANGED held

SpecDrop == Init /\ [][NextDrop]_vars

\* SpecUpdate: buffers of both kinds and several element widths created and
\* updated with slices of several widths and lengths
MaxSlice == 2        \* slices of SpecUpdate hold 1..MaxSlice elements

NextUpdate ==
    \/ \E buffer_type \in BufferTypes, elem \in {1, 2, 4}, len \in 1..MaxSlice :
          BufferImmutable(buffer_type, elem, len)
    \/ \E buffer_type \in BufferTypes, size \in StreamSizes : BufferStream(buffer_type, size)
    \/ \E index_type \in IndexTypes, size \in StreamSizes : BufferIndexStream(index_type, size)
    \/ \E buf \in buffers, elem \in {1, 2, 4, 8}, len \in 1..MaxSlice :
          BufferUpdate(buf, elem, len)

SpecUpdate == Init /\ [][NextUpdate]_vars

\* A step of the main loop or of the OS: the Context is not touched
LoopStep(l) ==
    /\ loop' = l
    /\ UNCHANGED <<cache, gl, buffers, textures, shaders, pipelines, passes, calls, oplog,
                   last, input, hist, ghost, glstate, held>>

\* The OS queues an event; it can do so at any point of the loop
EventArrives(event) ==
    /\ loop.arrived < MaxEvents
    /\ LoopStep([loop EXCEPT
                   !.arrived = @ + 1,
                   !.queue = Append(@, [kind |-> event.kind, n |-> event.n, id |-> loop.arrived + 1])])

\* One turn of `for event in events_loop.poll_iter()`: the arm of the match
\* for the event, or the end of the for loop when the queue is empty
PollIter ==
    /\ loop.pc = "poll"
    /\ IF loop.queue = <<>>
       THEN LoopStep([loop EXCEPT !.pc = "update", !.pending = loop.arrived])
       ELSE LET p == poll_event(loop.queue)
            IN  LoopStep([loop EXCEPT
                            !.queue = p.rest,
                            !.polled = Append(@, p.event.id),
                            !.frame = @ \o CallsFor(HandlerCalls(p.event), p.event.id),
                            !.window_size = update_window_size(@, p.event),
                            !.pc = after_event(p.event)])

\* handler.update(&mut ctx, &mut window_context); quits: the handler calls
\* window_context.quit() in it, which it does once in a run at most
HandlerUpdate(quits) ==
    /\ loop.pc = "update"
    /\ quits => ~loop.forced
    /\ LET l == [loop EXCEPT !.pc = "draw", !.frame = @ \o CallsFor(<<"update">>, 0)]
       IN  LoopStep(IF quits THEN window_quit(l) ELSE l)

\* handler.draw(&mut ctx, &mut window_context)
HandlerDraw(quits) ==
    /\ loop.pc = "draw"
    /\ quits => ~loop.forced
    /\ LET l == [loop EXCEPT !.pc = "present", !.frame = @ \o CallsFor(<<"draw">>, 0)]
       IN  LoopStep(IF quits THEN window_quit(l) ELSE l)

\* window_context.0.gl_swap_window(), the end of the iteration
SwapWindow ==
    /\ loop.pc = "present"
    /\ LoopStep([loop EXCEPT
                   !.pc = "poll",
                   !.done = [ calls |-> loop.frame \o CallsFor(<<"gl_swap_window">>, 0),
                              polled |-> loop.polled, start |-> loop.taken,
                              pending |-> loop.pending ],
                   !.taken = @ + Len(loop.polled),
                   !.polled = <<>>,
                   !.frame = <<>>,
                   !.frames = IF @ < MaxFrames THEN @ + 1 ELSE @])

NextLoop ==
    \/ \E event \in OsEvents : EventArrives(event)
    \/ PollIter
    \/ \E quits \in BOOLEAN : HandlerUpdate(quits)
    \/ \E quits \in BOOLEAN : HandlerDraw(quits)
    \/ SwapWindow

SpecLoop == Init /\ [][NextLoop]_vars

\* The loop is one thread that runs on: poll_iter returns, every handler
\* callback returns and gl_swap_window returns
SpecLoopFair ==
    /\ SpecLoop
    /\ WF_vars(PollIter)
    /\ WF_vars(\E quits \in BOOLEAN : HandlerUpdate(quits))
    /\ WF_vars(\E quits \in BOOLEAN : HandlerDraw(quits))
    /\ WF_vars(SwapWindow)

\* SpecAttributes: up to MaxLayouts pipelines of one or two attributes over two
\* vertex buffer slots, applied with bindings of the buffers the caller holds
MaxLayouts == 2      \* length of the pipeline table in SpecAttributes

NextAttributes ==
    \/ ShaderNew(ShaderMeta(0, <<>>), AllBuilt, <<>>, <<>>)
    \/ /\ Running /\ Len(pipelines) < MaxLayouts
       /\ \E shader \in DOMAIN shaders,
             attributes \in { << [name |-> "a", format |-> "Float2", buffer_index |-> 0] >>,
                              << [name |-> "a", format |-> "Float2", buffer_index |-> 1] >>,
                              << [name |-> "a", format |-> "Float2", buffer_index |-> 0],
                                 [name |-> "b", format |-> "Float2", buffer_index |-> 1] >> } :
             PipelineWithParams(<<DefaultBufferLayout, DefaultBufferLayout>>, attributes,
                                shader, RowLocations(attributes), DefaultParams, MaxLayouts)
    \/ \E pipeline \in DOMAIN pipelines : ApplyPipeline(pipeline)
    \/ \E buffer_type \in BufferTypes : BufferImmutable(buffer_type, 4, 1)
    \/ \E buf \in buffers : BufferDelete(buf)
    \/ \E bindings \in [ vertex_buffers : SeqsUpTo({b \in buffers : b.buffer_type = "VertexBuffer"}, 2),
                         index_buffer   : {b \in buffers : b.buffer_type = "IndexBuffer"},
                         images         : {<<>>} ] :
          ApplyBindings(bindings)

SpecAttributes == Init /\ [][NextAttributes]_vars

\* A Context method that changes the cache and the driver's fixed-function
\* state alone, ending in call state st
ContextCall(st, op, in) ==
    /\ Running
    /\ StepWith(st, op, "", 0, in)
    /\ UNCHANGED <<gl, buffers, textures, shaders, pipelines, passes>>

\* SpecParams: pipelines of several parameter sets applied, and the four state
\* setters called directly
NextParams ==
    \/ ShaderNew(ShaderMeta(0, <<>>), AllBuilt, <<>>, <<>>)
    \/ /\ Running /\ Len(pipelines) < MaxPipelines
       /\ \E shader \in DOMAIN shaders,
             params \in [ cull_face        : {"Nothing", "Back"},
                          front_face_order : {"CounterClockwise"},
                          depth_test       : {"Always"},
                          depth_write      : BOOLEAN,
                          color_blend      : {<<>>, Some(1)},
                          alpha_blend      : {<<>>, Some(2)},
                          stencil_test     : {<<>>, Some(1)},
                          color_write      : {<<TRUE, TRUE, TRUE, TRUE>>,
                                              <<TRUE, TRUE, TRUE, FALSE>>} ] :
             PipelineWithParams(<<DefaultBufferLayout>>, <<>>, shader, <<>>, params,
                                MaxPipelines)
    \/ \E pipeline \in DOMAIN pipelines : ApplyPipeline(pipeline)
    \/ \E cull_face \in {"Nothing", "Front", "Back"} :
          ContextCall(set_cull_face(Begin(cache), cull_face), "set_cull_face",
                      [cull_face |-> cull_face])
    \/ \E color_write \in {<<TRUE, TRUE, TRUE, TRUE>>, <<TRUE, TRUE, TRUE, FALSE>>} :
          ContextCall(set_color_write(Begin(cache), color_write), "set_color_write",
                      [color_write |-> color_write])
    \/ \E color_blend \in {<<>>, Some(1), Some(2)}, alpha_blend \in {<<>>, Some(2)} :
          ContextCall(set_blend(Begin(cache), color_blend, alpha_blend), "set_blend",
                      [color_blend |-> color_blend, alpha_blend |-> alpha_blend])
    \/ \E stencil_test \in {<<>>, Some(1), Some(2)} :
          ContextCall(set_stencil(Begin(cache), stencil_test), "set_stencil",
                      [stencil_test |-> stencil_test])

SpecParams == Init /\ [][NextParams]_vars

----------------------------------------------------------------------------
(* SpecPrograms: shaders and pipelines created while pipelines are applied  *)
(* and uniforms uploaded                                                    *)

MaxPrograms == 2

NextPrograms ==
    \/ \E driver \in {AllBuilt, [AllBuilt EXCEPT !.link = FALSE]},
          uniform_type \in {"Float1", "Float2"} :
          ShaderNewUpTo(ShaderMeta(0, << Uniform(uniform_type, 1) >>), driver, <<>>,
                        << Some(0) >>, MaxPrograms)
    \/ \E shader \in DOMAIN shaders :
          PipelineWithParams(<<DefaultBufferLayout>>, <<>>, shader, <<>>, DefaultParams,
                             MaxPrograms)
    \/ \E pipeline \in DOMAIN pipelines : ApplyPipeline(pipeline)
    \/ \E size \in {4, 8} : ApplyUniforms(size, FALSE)

SpecPrograms == Init /\ [][NextPrograms]_vars

----------------------------------------------------------------------------
(* SpecResize: a texture created, bound through apply_bindings, resized and *)
(* deleted                                                                  *)

NextResize ==
    \/ ShaderNew(ShaderMeta(1, <<>>), AllBuilt, AllLocated(1), <<>>)
    \/ \E shader \in DOMAIN shaders : PipelineNew(<<DefaultBufferLayout>>, <<>>, shader, <<>>)
    \/ \E pipeline \in DOMAIN pipelines : ApplyPipeline(pipeline)
    \/ buffers = {} /\ BufferImmutable("IndexBuffer", 2, 1)
    \/ \E bindings \in [ vertex_buffers : {<<>>},
                         index_buffer   : {b \in buffers : b.buffer_type = "IndexBuffer"},
                         images         : [1..1 -> textures] ] :
          ApplyBindings(bindings)
    \/ \E width \in 1..MaxDim : TextureNew("Texture2D", RGBA8Params(width), <<>>)
    \/ \E tex \in textures, width \in 1..MaxDim :
          \E bytes \in {<<>>, Some([len |-> 4 * width, data |-> 1])} :
             TextureResize(tex, width, 1, bytes)
    \/ \E tex \in textures : TextureDelete(tex)

SpecResize == Init /\ [][NextResize]_vars

----------------------------------------------------------------------------
(* SpecBlend: pipelines of several blend parameters, changed through        *)
(* Pipeline::set_blend and applied, and Context::set_blend called directly  *)

NextBlend ==
    \/ ShaderNew(ShaderMeta(0, <<>>), AllBuilt, <<>>, <<>>)
    \/ /\ Running /\ Len(pipelines) < MaxPipelines
       /\ \E shader \in DOMAIN shaders,
             color_blend \in {<<>>, Some(1)}, alpha_blend \in {<<>>, Some(2)} :
             PipelineWithParams(<<DefaultBufferLayout>>, <<>>, shader, <<>>,
                                [DefaultParams EXCEPT !.color_blend = color_blend,
                                                      !.alpha_blend = alpha_blend],
                                MaxPipelines)
    \/ \E pipeline \in DOMAIN pipelines, color_blend \in {<<>>, Some(1), Some(3)} :
          PipelineSetBlend(pipeline, color_blend)
    \/ \E pipeline \in DOMAIN pipelines : ApplyPipeline(pipeline)
    \/ \E color_blend \in {<<>>, Some(1)}, alpha_blend \in {<<>>, Some(2)} :
          ContextCall(set_blend(Begin(cache), color_blend, alpha_blend), "set_blend",
                      [color_blend |-> color_blend, alpha_blend |-> alpha_blend])

SpecBlend == Init /\ [][NextBlend]_vars

----------------------------------------------------------------------------
(* SpecOwners: buffers and textures created, moved into Bindings values and *)
(* render passes, cloned, dropped and deleted.  The caller calls each       *)
(* explicit delete once for a resource: a Buffer or Texture that is deleted *)
(* leaves the caller's hands, a texture that a pass holds is left to        *)
(* RenderPass::delete, and a pass is deleted while its framebuffer exists.  *)

NextOwners ==
    \/ \E buffer_type \in BufferTypes :
          /\ \A b \in buffers : b.buffer_type # buffer_type
          /\ BufferImmutable(buffer_type, 2, 1)
    \/ TextureNewRender
    \/ passes = <<>> /\ \E color_img \in textures : RenderPassNew(color_img)
    \/ \E pass \in DOMAIN passes : RenderPassTexture(pass)
    \/ \E pass \in DOMAIN passes :
          /\ passes[pass].gl_fb \in gl.framebuffers
          /\ RenderPassDelete(pass)
    \/ \E buf \in buffers : BufferDelete(buf)
    \/ \E tex \in textures :
          /\ \A pass \in DOMAIN passes : passes[pass].texture.texture # tex.texture
          /\ TextureDelete(tex)
          /\ UNCHANGED held
    \/ \E bindings \in [ vertex_buffers : SeqsUpTo({b \in buffers :
                                                     b.buffer_type = "VertexBuffer"}, 1),
                         index_buffer   : {b \in buffers : b.buffer_type = "IndexBuffer"},
                         images         : SeqsUpTo(textures, 1) ] :
          BindingsNew(bindings)
    \/ \E i \in DOMAIN held : BindingsClone(i)
    \/ \E i \in DOMAIN held :
          /\ BindingsDrop(held[i])
          /\ held' = SubSeq(held, 1, i - 1) \o SubSeq(held, i + 1, Len(held))

SpecOwners == Init /\ [][NextOwners]_vars

\* C1 (as amended): every bind_buffer invocation issues the native bind if and
\* only if its handle differs from the handle the invocation before it requested
\* for the same target (none before the first); a run of identical requests
\* issues at most one native call, and exactly one unless it is the run of
\* bind_buffer(target, None) that starts the sequence.
C1_BindIffChanged ==
    /\ \A i \in DOMAIN hist.binds :
          hist.binds[i].native <=> (hist.binds[i].h # hist.binds[i].prev)
    /\ \A t \in Targets :
          /\ hist.run[t].natives <= 1
          /\ hist.run[t].count > 0 =>
                (hist.run[t].natives = 1 <=> hist.run[t].h # hist.run[t].before)

\* C1 witness: a repeated identical bind of a buffer, with a native call elided
C1_Witness ==
    /\ last.op = "bind_buffer"
    /\ \E t \in Targets : hist.run[t].count = 2 /\ hist.run[t].h # None
                          /\ hist.run[t].natives = 1
    /\ \E i \in DOMAIN hist.binds : ~hist.binds[i].native

\* C1 as stated: the native call is issued iff the handle differs from the one
\* requested before, and every repeated identical bind issues exactly one
\* native call in total.
C1_Original ==
    /\ \A i \in DOMAIN hist.binds :
          hist.binds[i].native <=> (hist.binds[i].h # hist.binds[i].prev)
    /\ \A t \in Targets : hist.run[t].count = 2 => hist.run[t].natives = 1

\* The Buffer operations built on the scoped store; bind; restore
ScopedOps == {"Buffer::immutable", "Buffer::stream", "Buffer::index_stream", "Buffer::update"}

\* C2: a successful Buffer::immutable, stream, index_stream or update leaves
\* the cached bound handle of its target what it was before the call, no
\* buffer bound included.
C2_ScopedBindRestores ==
    [][ (last'.op \in ScopedOps /\ last'.result = "ok")
          => BoundHandle(cache', last'.target) = BoundHandle(cache, last'.target) ]_vars

\* C3: creating or updating an index buffer after apply_bindings leaves the
\* cached index element width what it was, and a draw that follows succeeds.
C3_IndexWidthKept ==
    [][ ( /\ last'.op \in ScopedOps
          /\ last'.result = "ok"
          /\ last'.target = ELEMENT_ARRAY_BUFFER
          /\ ghost.bound
          /\ draw(Begin(cache), 0).result = "ok" )
          => ( /\ cache'.index_type = cache.index_type
               /\ draw(Begin(cache'), 0).result = "ok" ) ]_vars

\* C4: the first apply_bindings after commit_frame and apply_pipeline elides
\* no native bind and skips no attribute setup on a cache entry that was
\* written before the commit_frame and names a buffer deleted since.
C4_NoStaleSkip ==
    (last.op = "apply_bindings" /\ ghost.fresh) => ~ghost.stale_skip

\* C5: a draw with a current pipeline and no apply_bindings since the Context
\* was created, or since the last end_render_pass or commit_frame, fails and
\* issues no native call.
C5_DrawNeedsBindings ==
    (last.op = "draw" /\ cache.cur_pipeline # None /\ ~ghost.bound)
        => (last.result = "panic" /\ calls = <<>>)

\* C6: while apply_pipeline was never called, draw, apply_bindings and
\* apply_uniforms fail and issue no native call.
C6_NoPipelineFails ==
    (last.op \in {"draw", "apply_bindings", "apply_uniforms"} /\ ~ghost.pipelined)
        => (last.result = "panic" /\ calls = <<>>)

C6_Witness ==
    /\ last.op = "draw"
    /\ ~ghost.pipelined
    /\ cache.index_type # NoIndexType
    /\ last.result = "panic"

\* The sum over uniforms[n..] of type size in bytes times array count
RECURSIVE DeclaredBytes(_, _)
DeclaredBytes(uniforms, n) ==
    IF n > Len(uniforms) THEN 0
    ELSE UniformTypeSize(uniforms[n].uniform_type) * uniforms[n].array_count
         + DeclaredBytes(uniforms, n + 1)

CurrentShader == shaders[pipelines[cache.cur_pipeline].shader]

\* C7: apply_uniforms with a struct smaller in bytes than the declared
\* uniforms of the current shader fails, and every upload it issued before
\* failing read inside the struct.
C7_ShortStructFails ==
    ( /\ last.op = "apply_uniforms"
      /\ cache.cur_pipeline # None
      /\ last.arg < DeclaredBytes(CurrentShader.uniforms, 1) )
        => ( /\ last.result = "panic"
             /\ \A i \in DOMAIN oplog.uploads :
                   4 * (oplog.uploads[i].offset + oplog.uploads[i].len) <= last.arg )

\* C8: after commit_frame the cached vertex buffer, index buffer and the
\* texture of every one of the MAX_SHADERSTAGE_IMAGES slots are unbound.
C8_CommitFrameUnbinds ==
    last.op = "commit_frame"
        => ( /\ cache.vertex_buffer = None
             /\ cache.index_buffer = None
             /\ DOMAIN cache.textures = 0..(MAX_SHADERSTAGE_IMAGES - 1)
             /\ \A slot \in DOMAIN cache.textures : cache.textures[slot] = None )

C8_Witness ==
    /\ last.op = "commit_frame"
    /\ \E i \in DOMAIN calls : calls[i] = Call("bind_texture", "TEXTURE_2D", None)
    /\ \E i \in DOMAIN calls : calls[i] = Call("bind_buffer", ARRAY_BUFFER, None)
    /\ \E i \in DOMAIN calls : calls[i] = Call("bind_buffer", ELEMENT_ARRAY_BUFFER, None)

\* C9: end_render_pass leaves the cached vertex and index buffers unbound and
\* the default framebuffer bound, and changes no cached texture handle.
C9_EndRenderPassKeepsTextures ==
    [][ last'.op = "end_render_pass"
          => ( /\ cache'.vertex_buffer = None
               /\ cache'.index_buffer = None
               /\ gl'.framebuffer = DefaultFramebuffer
               /\ cache'.textures = cache.textures ) ]_vars

C9_Witness ==
    /\ last.op = "end_render_pass"
    /\ \E slot \in DOMAIN cache.textures : cache.textures[slot] # None
    /\ \E i \in DOMAIN calls : calls[i] = Call("bind_buffer", ARRAY_BUFFER, None)
    /\ \E i \in DOMAIN oplog.binds : oplog.binds[i].target = ELEMENT_ARRAY_BUFFER
                                      /\ oplog.binds[i].native

\* C10: store_buffer_binding(T) followed immediately by
\* restore_buffer_binding(T) leaves the cached bound handle of T as it was
\* before the store.
C10_StoreRestoreNoop ==
    ( /\ last.op = "restore_buffer_binding"
      /\ hist.prev.op = "store_buffer_binding"
      /\ hist.prev.target = last.target )
    => BoundHandle(cache, last.target) = hist.prev.pre

\* C10 witness: a store/restore pair on a target that has a buffer bound, with
\* the other target bound to another buffer
C10_Witness ==
    /\ last.op = "restore_buffer_binding"
    /\ hist.prev.op = "store_buffer_binding"
    /\ hist.prev.target = last.target
    /\ hist.prev.pre # None
    /\ cache.vertex_buffer # cache.index_buffer

\* The Texture operations built on store slot 0; bind own texture; restore
TextureScopedOps == {"Texture::new", "Texture::set_filter", "Texture::update_texture_part"}

\* C11: a successful Texture::new, set_filter or update_texture_part leaves
\* the cached texture handle of slot 0 what it was before the call, no texture
\* included, and changes the cached handle of no other slot.
C11_TextureOpsKeepSlots ==
    [][ (last'.op \in TextureScopedOps /\ last'.result = "ok")
          => cache'.textures = cache.textures ]_vars

C11_Witness ==
    /\ last.op \in TextureScopedOps
    /\ last.result = "ok"
    /\ last.arg # None
    /\ \E i \in DOMAIN calls : calls[i] = Call("bind_texture", "TEXTURE_2D", last.arg)
    /\ \E i \in DOMAIN calls : calls[i] = Call("bind_texture", "TEXTURE_2D", None)
    /\ cache.textures[0] = None
    /\ cache.textures[1] # None

\* Sum of the byte lengths of the attributes 1..n of buffer buffer_index
RECURSIVE BytesBefore(_, _, _)
BytesBefore(attributes, n, buffer_index) ==
    IF n = 0 THEN 0
    ELSE BytesBefore(attributes, n - 1, buffer_index)
           + (IF attributes[n].buffer_index = buffer_index
              THEN VertexFormatByteLen(attributes[n].format) ELSE 0)

\* The rows of the pipeline's layout that attribute n of the input occupies
RowsOf(pip, in, n) ==
    IF IsSome(in.locs[n])
    THEN {Unwrap(pip.layout[Unwrap(in.locs[n]) + i + 1]) :
             i \in 0..(IF in.attributes[n].format = "Mat4" THEN 3 ELSE 0)}
    ELSE {}

\* C12: in a pipeline built over a buffer layout of stride 0, the offset of
\* each attribute is the sum of the byte lengths of the attributes before it
\* in the same buffer and the stride of every slot of the buffer is the sum of
\* all of them; byte lengths 8, 4, 16 give offsets 0, 8, 12 and stride 28.
C12_PackedLayout ==
    (last.op = "Pipeline::new" /\ last.result = "ok")
      => LET pip == pipelines[last.arg]
             attributes == input.attributes
         IN  /\ \A n \in DOMAIN attributes :
                  LET b == attributes[n].buffer_index
                  IN  (input.buffer_layout[b + 1].stride = 0 /\ IsSome(input.locs[n]))
                        => /\ Unwrap(pip.layout[Unwrap(input.locs[n]) + 1]).offset
                                = BytesBefore(attributes, n - 1, b)
                           /\ \A row \in RowsOf(pip, input, n) :
                                 row.stride = BytesBefore(attributes, Len(attributes), b)
             /\ ( /\ [n \in DOMAIN attributes |-> attributes[n].format]
                        = <<"Float2", "Byte4", "Float4">>
                  /\ \A n \in DOMAIN attributes : attributes[n].buffer_index = 0
                  /\ input.buffer_layout[1].stride = 0
                  /\ input.locs = RowLocations(attributes) )
                  => /\ [n \in 1..3 |-> Unwrap(pip.layout[n]).offset] = <<0, 8, 12>>
                     /\ \A n \in 1..3 : Unwrap(pip.layout[n]).stride = 28

C12_Witness ==
    /\ last.op = "Pipeline::new"
    /\ last.result = "ok"
    /\ [n \in DOMAIN input.attributes |-> input.attributes[n].format]
          = <<"Float2", "Byte4", "Float4">>
    /\ \A n \in DOMAIN input.attributes : input.attributes[n].buffer_index = 0
    /\ input.buffer_layout[1].stride = 0
    /\ input.locs = RowLocations(input.attributes)

\* The stride Pipeline::new computes for buffer buffer_index: the declared one,
\* or with stride 0 the accumulated byte lengths; no attribute, no stride
ComputedStride(in, buffer_index) ==
    IF \A n \in DOMAIN in.attributes : in.attributes[n].buffer_index # buffer_index
    THEN 0
    ELSE IF in.buffer_layout[buffer_index + 1].stride = 0
         THEN BytesBefore(in.attributes, Len(in.attributes), buffer_index)
         ELSE in.buffer_layout[buffer_index + 1].stride

\* C13: Pipeline construction fails whenever the stride computed for a buffer,
\* accumulated or declared, is over 255: no pipeline is added; a pipeline that
\* is added carries the computed strides, none truncated.
C13_StrideOver255Fails ==
    [][ last'.op = "Pipeline::new"
          => /\ (\E b \in 0..(Len(input'.buffer_layout) - 1) : ComputedStride(input', b) > 255)
                  => (last'.result = "panic" /\ pipelines' = pipelines)
             /\ last'.result = "ok"
                  => \A n \in DOMAIN input'.attributes :
                        \A row \in RowsOf(pipelines'[last'.arg], input', n) :
                           row.stride = ComputedStride(input', row.buffer_index) ]_vars

C13_Witness ==
    /\ last.op = "Pipeline::new"
    /\ last.result = "panic"
    /\ input.buffer_layout[1].stride = 0
    /\ ComputedStride(input, 0) = 256
    /\ ComputedStride(input, 1) <= 255

\* C14: apply_bindings panics whenever the bindings carry fewer images than the
\* current shader declares, whatever the two counts and whether or not the
\* driver located the sampler of the first missing slot.
C14_FewerImagesPanics ==
    ( /\ last.op = "apply_bindings"
      /\ cache.cur_pipeline # None
      /\ Len(input.images) < Len(CurrentShader.images) )
        => last.result = "panic"

C14_Witness ==
    /\ last.op = "apply_bindings"
    /\ cache.cur_pipeline # None
    /\ Len(input.images) = 1
    /\ Len(CurrentShader.images) = MaxSlots
    /\ ~IsSome(CurrentShader.images[2].gl_loc)
    /\ IsSome(CurrentShader.images[1].gl_loc)
    /\ cache.textures[0] # None
    /\ last.result = "panic"

\* C15: Texture::update on an RGBA8 2D texture fails, with no native call
\* issued, for every slice whose length is not width * height * 4, and with
\* that length it succeeds and uploads the slice.
C15_UpdateLengthChecked ==
    ( /\ last.op = "Texture::update"
      /\ input.tex.format = "RGBA8"
      /\ input.tex.kind = "Texture2D" )
        => IF Unwrap(input.bytes).len # input.tex.width * input.tex.height * 4
           THEN last.result = "panic" /\ calls = <<>> /\ oplog.uploads = <<>>
           ELSE /\ last.result = "ok"
                /\ \E i \in DOMAIN oplog.uploads :
                      /\ oplog.uploads[i].f = "tex_sub_image_2d"
                      /\ oplog.uploads[i].len = Unwrap(input.bytes).len

C15_Witness ==
    /\ last.op = "Texture::update"
    /\ input.tex \in textures
    /\ input.tex.format = "RGBA8"
    /\ input.tex.kind = "Texture2D"
    /\ Unwrap(input.bytes).len > input.tex.width * input.tex.height * 4
    /\ last.result = "panic"

\* C16: a texture created from bytes (Texture::new, from_data_and_format,
\* from_rgba8) is accepted only when the slice is width * height * depth *
\* bytes-per-pixel long, depth counting for the 3D and 2D-array kinds.
C16_CreationLengthChecked ==
    ( /\ last.op \in {"Texture::new", "Texture::from_rgba8"}
      /\ IsSome(input.bytes) )
        => ( last.result = "ok"
               <=> Unwrap(input.bytes).len
                      = input.params.width * input.params.height
                          * (IF input.kind = "Texture2D" THEN 1 ELSE input.params.depth)
                          * BytesPerPixel(input.params.format) )

\* C17: after Texture::update has succeeded on an RGBA8 2D texture with
\* width * height * 4 bytes, the read_pixels that follows returns exactly
\* those bytes and leaves the framebuffer bound that was bound before it.
C17_UpdateReadPixelsRoundTrip ==
    [][ ( /\ last.op = "Texture::update"
          /\ last.result = "ok"
          /\ input.tex.format = "RGBA8"
          /\ input.tex.kind = "Texture2D"
          /\ last'.op = "Texture::read_pixels"
          /\ input'.tex = input.tex )
          => ( /\ last'.result = "ok"
               /\ oplog'.uploads[1].len = oplog.uploads[1].len
               /\ oplog'.uploads[1].data = oplog.uploads[1].data
               /\ gl'.framebuffer = gl.framebuffer ) ]_vars

\* The native objects the last operation created and did not delete
Undeleted ==
    { i \in DOMAIN calls :
        /\ calls[i][1] \in {"create_shader", "create_program"}
        /\ ~\E j \in DOMAIN calls :
              /\ j > i
              /\ calls[j][1] = (IF calls[i][1] = "create_shader" THEN "delete_shader"
                                ELSE "delete_program")
              /\ calls[j][3] = calls[i][3] }

\* C18: when Shader::new fails, at the vertex compile, the fragment compile or
\* the link, every native object the call created has been deleted when the
\* error is returned.
C18_FailedShaderDeletesObjects ==
    (last.op = "Shader::new" /\ last.result # "ok") => Undeleted = {}

\* C19: Shader::new returns CompilationError of the vertex stage when the
\* vertex shader does not compile, without compiling the fragment shader,
\* CompilationError of the fragment stage when the fragment shader does not,
\* LinkError when the program does not link; a failure leaves the shader table
\* as it was and yields no handle, and a success yields the index of the entry
\* it appended.
C19_ShaderErrorsTyped ==
    [][ last'.op = "Shader::new"
          => LET driver == input'.driver
             IN  /\ ~driver.vertex
                      => /\ last'.result = "CompilationError(Vertex)"
                         /\ \A i \in DOMAIN calls' : calls'[i][2] # "FRAGMENT_SHADER"
                 /\ (driver.vertex /\ ~driver.fragment)
                      => last'.result = "CompilationError(Fragment)"
                 /\ (driver.vertex /\ driver.fragment /\ ~driver.link)
                      => last'.result = "LinkError"
                 /\ driver # AllBuilt => (shaders' = shaders /\ last'.arg = 0)
                 /\ driver = AllBuilt
                      => /\ last'.result = "ok"
                         /\ shaders' = Append(shaders, shaders'[Len(shaders')])
                         /\ last'.arg = Len(shaders') ]_vars

C19_Witness ==
    /\ last.op = "Shader::new"
    /\ last.result = "CompilationError(Fragment)"
    /\ ~input.driver.link
    /\ Len(input.meta.images) = MaxSlots
    /\ shaders = <<>>

\* C20: dropping a Bindings issues a native delete for every vertex buffer,
\* for the index buffer and for every image that has a native handle, and none
\* for an image that is the empty placeholder.
C20_DropDeletesAll ==
    last.op = "Bindings::drop"
      => /\ \A n \in DOMAIN input.vertex_buffers :
               \E i \in DOMAIN calls :
                  calls[i] = Call("delete_buffer", "buffer", input.vertex_buffers[n].gl_buf)
         /\ \E i \in DOMAIN calls :
               calls[i] = Call("delete_buffer", "buffer", input.index_buffer.gl_buf)
         /\ \A n \in DOMAIN input.images :
               input.images[n].texture # None
                 => \E i \in DOMAIN calls :
                       calls[i] = Call("delete_texture", "texture", input.images[n].texture)
         /\ Cardinality({i \in DOMAIN calls : calls[i][1] = "delete_texture"})
               = Cardinality({n \in DOMAIN input.images : input.images[n].texture # None})
         /\ Len(calls) = Len(input.vertex_buffers) + 1
                           + Cardinality({n \in DOMAIN input.images :
                                             input.images[n].texture # None})

C20_Witness ==
    /\ last.op = "Bindings::drop"
    /\ Len(input.vertex_buffers) = 1
    /\ input.vertex_buffers[1].gl_buf # input.index_buffer.gl_buf
    /\ \E n \in DOMAIN input.images : input.images[n] = EmptyTexture
    /\ \E n \in DOMAIN input.images : input.images[n].texture # None

\* C21: Buffer::update on an index buffer fails when the width of the written
\* element type differs from the declared index width, and on any buffer when
\* the byte size of the data exceeds the recorded size; a failed update issues
\* no native call and leaves the cache as it was.
C21_UpdateChecked ==
    [][ ( /\ last'.op = "Buffer::update"
          /\ \/ /\ input'.buf.buffer_type = "IndexBuffer"
                /\ input'.buf.index_type \in IndexTypes
                /\ IndexTypeSize(input'.buf.index_type) # input'.elem
             \/ input'.elem * input'.len > input'.buf.size )
          => ( /\ last'.result = "panic"
               /\ calls' = <<>>
               /\ cache' = cache ) ]_vars

C21_Witness ==
    /\ last.op = "Buffer::update"
    /\ input.buf.buffer_type = "IndexBuffer"
    /\ input.buf.index_type = "Short"
    /\ input.elem = 4
    /\ input.elem * input.len <= input.buf.size
    /\ cache.vertex_buffer # None
    /\ last.result = "panic"

\* C22: an iteration of the main loop that sees no quit event polls every
\* event that was pending, each once and in arrival order, and makes the
\* handler calls of these events in that order, then update once, then draw
\* once, then presents the window once; no event callback comes between
\* update, draw and present.
C22_FrameOrder ==
    loop.frames > 0 =>
       LET f == loop.done
           n == Len(f.calls)
       IN  /\ f.polled = [i \in 1..(f.pending - f.start) |-> f.start + i]
           /\ n >= 3
           /\ [i \in 1..3 |-> f.calls[n - 3 + i]]
                 = CallsFor(<<"update", "draw", "gl_swap_window">>, 0)
           /\ \A i \in 1..(n - 3) :
                 /\ f.calls[i].event \in (f.start + 1)..f.pending
                 /\ f.calls[i].call \notin {"update", "draw", "gl_swap_window"}
                 /\ i > 1 => f.calls[i - 1].event <= f.calls[i].event

\* an iteration that polled two events with handler calls while a third one
\* arrived after the polling ended
C22_Witness ==
    /\ loop.frames > 0
    /\ Len(loop.done.polled) = 2
    /\ Len(loop.done.calls) = 6
    /\ loop.done.calls[1].event = 1
    /\ loop.done.calls[2].event = 2
    /\ loop.queue # <<>>
    /\ loop.pc = "poll"

\* C23: after apply_bindings completes, every attribute slot below
\* MAX_VERTEX_ATTRIBUTES has a cache entry iff the current pipeline declares an
\* attribute there, and the entry is the pipeline's descriptor with the handle
\* of the bindings' vertex buffer at the attribute's buffer index; and at all
\* times the slots whose native vertex attribute array is enabled are the
\* slots with a cache entry.
C23_AttributeSlots ==
    /\ gl.arrays = {ix \in DOMAIN cache.attributes : IsSome(cache.attributes[ix])}
    /\ (last.op = "apply_bindings" /\ last.result = "ok") =>
          LET pip == pipelines[cache.cur_pipeline]
          IN  \A ix \in 0..(MAX_VERTEX_ATTRIBUTES - 1) :
                 IF ix < Len(pip.layout) /\ IsSome(pip.layout[ix + 1])
                 THEN LET attribute == Unwrap(pip.layout[ix + 1])
                      IN  cache.attributes[ix] =
                             Some([ attribute |-> attribute,
                                    gl_vbuf |-> input.vertex_buffers[attribute.buffer_index + 1].gl_buf ])
                 ELSE ~IsSome(cache.attributes[ix])

\* apply_bindings under a pipeline that declares slot 0 alone, after a pipeline
\* that declared slots 0 and 1: slot 0 was set up again and slot 1 disabled
C23_Witness ==
    /\ last.op = "apply_bindings"
    /\ last.result = "ok"
    /\ oplog.slots = << [slot |-> 0, did |-> "setup"], [slot |-> 1, did |-> "disable"] >>
    /\ IsSome(cache.attributes[0])
    /\ gl.arrays = {0}

\* C24 (as amended): in an apply_bindings that completes, a slot the pipeline
\* declares gets no attribute-pointer, divisor and enable call and keeps its
\* cache entry iff the cached descriptor equals the pipeline's descriptor and
\* the cached source-buffer handle equals the handle of the resolved vertex
\* buffer; otherwise the three calls are issued once each and the cache entry
\* is replaced.  The vertex buffer of such a slot is bound through the cache:
\* every native bind of the vertex target comes right before the pointer call
\* of a slot that is set up and binds that slot's buffer, and it is elided
\* when the cache already holds that buffer as the bound vertex buffer.
C24_SetupIffDiffers ==
    [][ (last'.op = "apply_bindings" /\ last'.result = "ok") =>
          LET pip == pipelines[cache.cur_pipeline]
              Declared == {ix \in 0..(Len(pip.layout) - 1) : IsSome(pip.layout[ix + 1])}
              Vb(ix) == input'.vertex_buffers[Unwrap(pip.layout[ix + 1]).buffer_index + 1]
              Entry(ix) == Some([attribute |-> Unwrap(pip.layout[ix + 1]),
                                 gl_vbuf |-> Vb(ix).gl_buf])
              Issued(f, ix) == Cardinality({i \in DOMAIN calls' :
                                              calls'[i] = Call(f, "attr", ix)})
          IN  /\ \A ix \in Declared :
                    IF cache.attributes[ix] = Entry(ix)
                    THEN /\ Issued("vertex_attrib_pointer_f32", ix) = 0
                         /\ Issued("vertex_attrib_divisor", ix) = 0
                         /\ Issued("enable_vertex_attrib_array", ix) = 0
                         /\ cache'.attributes[ix] = cache.attributes[ix]
                    ELSE /\ Issued("vertex_attrib_pointer_f32", ix) = 1
                         /\ Issued("vertex_attrib_divisor", ix) = 1
                         /\ Issued("enable_vertex_attrib_array", ix) = 1
                         /\ cache'.attributes[ix] = Entry(ix)
              /\ \A i \in DOMAIN calls' :
                    (calls'[i][1] = "bind_buffer" /\ calls'[i][2] = ARRAY_BUFFER) =>
                       /\ i < Len(calls')
                       /\ calls'[i + 1][1] = "vertex_attrib_pointer_f32"
                       /\ calls'[i + 1][3] \in Declared
                       /\ cache.attributes[calls'[i + 1][3]] # Entry(calls'[i + 1][3])
                       /\ calls'[i][3] = Vb(calls'[i + 1][3]).gl_buf ]_vars

\* an apply_bindings that skips slot 0 and sets up slot 1 from the buffer the
\* cache already holds as bound: no native bind of the vertex target
C24_Witness ==
    /\ last.op = "apply_bindings"
    /\ last.result = "ok"
    /\ oplog.slots = << [slot |-> 0, did |-> "skip"], [slot |-> 1, did |-> "setup"] >>
    /\ \A i \in DOMAIN calls : calls[i][1] # "bind_buffer"
    /\ Call("vertex_attrib_pointer_f32", "attr", 1) \in {calls[i] : i \in DOMAIN calls}

\* C24 as stated: every declared slot whose cache entry differs gets the native
\* bind of its vertex buffer, right before its attribute-pointer call.
C24_Original ==
    [][ (last'.op = "apply_bindings" /\ last'.result = "ok") =>
          LET pip == pipelines[cache.cur_pipeline]
          IN  \A ix \in 0..(Len(pip.layout) - 1) :
                 ( /\ IsSome(pip.layout[ix + 1])
                   /\ cache.attributes[ix] #
                         Some([attribute |-> Unwrap(pip.layout[ix + 1]),
                               gl_vbuf |-> input'.vertex_buffers[
                                  Unwrap(pip.layout[ix + 1]).buffer_index + 1].gl_buf]) )
                 => \E i \in DOMAIN calls' :
                       /\ calls'[i] = Call("vertex_attrib_pointer_f32", "attr", ix)
                       /\ i > 1
                       /\ calls'[i - 1] =
                             Call("bind_buffer", ARRAY_BUFFER,
                                  input'.vertex_buffers[
                                     Unwrap(pip.layout[ix + 1]).buffer_index + 1].gl_buf) ]_vars

\* C25: bind_buffer on the index target always sets the remembered index
\* element width to the value passed, also when the handle is unchanged and no
\* native bind is issued; bind_buffer on the vertex target never changes the
\* remembered index element width or the cached index buffer handle.
C25_IndexWidthFollowsBind ==
    [][ last'.op = "bind_buffer" =>
          IF last'.target = ELEMENT_ARRAY_BUFFER
          THEN cache'.index_type = input'.index_type
          ELSE /\ cache'.index_type = cache.index_type
               /\ cache'.index_buffer = cache.index_buffer ]_vars

\* a bind of the index buffer the cache already holds, with another width: no
\* native call, and the width passed is the remembered one
C25_Witness ==
    /\ last.op = "bind_buffer"
    /\ last.target = ELEMENT_ARRAY_BUFFER
    /\ last.arg # None
    /\ calls = <<>>
    /\ hist.run[ELEMENT_ARRAY_BUFFER].count = 2
    /\ input.index_type = "Int"
    /\ cache.index_type = "Int"

\* C26: set_cull_face, set_color_write, set_stencil and set_blend each issue no
\* native call when the requested value equals the cached value, and after a
\* call that returns the cache holds the requested value; an apply_pipeline
\* that returns leaves the cached cull, blend, stencil and color-mask values
\* equal to the parameters of the applied pipeline.
C26_StateSetters ==
    [][ /\ last'.op = "set_cull_face" =>
             /\ input'.cull_face = cache.cull_face => calls' = <<>>
             /\ last'.result = "ok" => cache'.cull_face = input'.cull_face
        /\ last'.op = "set_color_write" =>
             /\ input'.color_write = cache.color_write => calls' = <<>>
             /\ last'.result = "ok" => cache'.color_write = input'.color_write
        /\ last'.op = "set_stencil" =>
             /\ input'.stencil_test = cache.stencil => calls' = <<>>
             /\ last'.result = "ok" => cache'.stencil = input'.stencil_test
        /\ last'.op = "set_blend" =>
             /\ ( /\ input'.color_blend = cache.color_blend
                  /\ input'.alpha_blend = cache.alpha_blend ) => calls' = <<>>
             /\ last'.result = "ok" =>
                   /\ cache'.color_blend = input'.color_blend
                   /\ cache'.alpha_blend = input'.alpha_blend
        /\ (last'.op = "apply_pipeline" /\ last'.result = "ok") =>
             LET params == pipelines[last'.arg].params
             IN  /\ cache'.cull_face = params.cull_face
                 /\ cache'.color_blend = params.color_blend
                 /\ cache'.alpha_blend = params.alpha_blend
                 /\ cache'.stencil = params.stencil_test
                 /\ cache'.color_write = params.color_write ]_vars

\* a pipeline with culling, blending, a stencil test and a color mask applied
\* for the second time in a row: the four setters issue no call
C26_Witness ==
    /\ last.op = "apply_pipeline"
    /\ last.result = "ok"
    /\ cache.cull_face = "Back"
    /\ cache.color_blend = Some(1)
    /\ cache.alpha_blend = Some(2)
    /\ cache.stencil = Some(1)
    /\ cache.color_write = <<TRUE, TRUE, TRUE, FALSE>>
    /\ Len(calls) = 4

\* C27: apply_uniforms walks the declared uniforms of the shader in declaration
\* order and reads uniform k at the offset, in 4-byte words, that is the sum
\* over the uniforms before k of (type size in bytes / 4) * array count; a
\* uniform without a location gets no upload and still advances the offset.
C27_UniformOffsets ==
    (last.op = "apply_uniforms" /\ cache.cur_pipeline # None) =>
       LET uniforms == CurrentShader.uniforms
           ups == oplog.uploads
       IN  /\ \A i \in DOMAIN ups :
                 /\ IsSome(uniforms[ups[i].n].gl_loc)
                 /\ 4 * ups[i].offset
                       = DeclaredBytes(uniforms, 1) - DeclaredBytes(uniforms, ups[i].n)
                 /\ calls[i][3] = ups[i].n
                 /\ \A j \in DOMAIN ups : i < j => ups[i].n < ups[j].n
           /\ Len(calls) = Len(ups)
           /\ last.result = "ok" =>
                 {ups[i].n : i \in DOMAIN ups}
                    = {n \in DOMAIN uniforms : IsSome(uniforms[n].gl_loc)}

\* two Int2 pairs without a location before a located Float3: the one upload
\* reads at word 4
C27_Witness ==
    /\ last.op = "apply_uniforms"
    /\ last.result = "ok"
    /\ cache.cur_pipeline # None
    /\ Len(CurrentShader.uniforms) = 2
    /\ ~IsSome(CurrentShader.uniforms[1].gl_loc)
    /\ oplog.uploads = << [n |-> 2, offset |-> 4, len |-> 3] >>

\* C28: for every declared uniform type apply_uniforms issues the matching
\* native upload call (1..4-component float for Float1..4, 1..4-component int
\* for Int1..4, the 4x4 matrix call for Mat4) with a slice of array count *
\* component count values.
C28_MatchingUpload ==
    (last.op = "apply_uniforms" /\ cache.cur_pipeline # None) =>
       \A i \in DOMAIN oplog.uploads :
          LET uniform == CurrentShader.uniforms[oplog.uploads[i].n]
              components == UniformTypeSize(uniform.uniform_type) \div 4
          IN  /\ calls[i][1] =
                    ( CASE uniform.uniform_type = "Float1" -> "uniform_1_f32_slice"
                        [] uniform.uniform_type = "Float2" -> "uniform_2_f32_slice"
                        [] uniform.uniform_type = "Float3" -> "uniform_3_f32_slice"
                        [] uniform.uniform_type = "Float4" -> "uniform_4_f32_slice"
                        [] uniform.uniform_type = "Int1" -> "uniform_1_i32_slice"
                        [] uniform.uniform_type = "Int2" -> "uniform_2_i32_slice"
                        [] uniform.uniform_type = "Int3" -> "uniform_3_i32_slice"
                        [] uniform.uniform_type = "Int4" -> "uniform_4_i32_slice"
                        [] uniform.uniform_type = "Mat4" -> "uniform_matrix_4_f32_slice" )
              /\ oplog.uploads[i].len = uniform.array_count * components

\* C29: in a pipeline that was built, a Mat4 attribute the driver located at L
\* has four slot entries, at L..L+3, each of 4 float components, with byte
\* offsets going up by 16 from the offset the attribute starts at, and moves
\* the running offset of its buffer on by 64; an attribute of any other format
\* has exactly one slot entry.
C29_Mat4Rows ==
    (last.op = "Pipeline::new" /\ last.result = "ok")
      => LET pip == pipelines[last.arg]
             attributes == input.attributes
             Located == {n \in DOMAIN attributes : IsSome(input.locs[n])}
             Count(n) == IF attributes[n].format = "Mat4" THEN 4 ELSE 1
             Start(n) == BytesBefore(attributes, n - 1, attributes[n].buffer_index)
         IN  /\ \A n \in Located :
                   LET L == Unwrap(input.locs[n])
                   IN  IF attributes[n].format = "Mat4"
                       THEN \A i \in 0..3 :
                               /\ IsSome(pip.layout[L + i + 1])
                               /\ Unwrap(pip.layout[L + i + 1]).attr_loc = L + i
                               /\ Unwrap(pip.layout[L + i + 1]).size = 4
                               /\ Unwrap(pip.layout[L + i + 1]).type_ = "FLOAT"
                               /\ Unwrap(pip.layout[L + i + 1]).offset = Start(n) + 16 * i
                       ELSE /\ IsSome(pip.layout[L + 1])
                            /\ Unwrap(pip.layout[L + 1]).attr_loc = L
                            /\ Unwrap(pip.layout[L + 1]).offset = Start(n)
             /\ \A n \in DOMAIN attributes :
                   (n > 1 /\ attributes[n - 1].format = "Mat4"
                          /\ attributes[n - 1].buffer_index = attributes[n].buffer_index)
                     => Start(n) = Start(n - 1) + 64
             /\ {k \in DOMAIN pip.layout : IsSome(pip.layout[k])}
                   = UNION { {Unwrap(input.locs[n]) + i + 1 : i \in 0..(Count(n) - 1)} :
                             n \in Located }

\* a Mat4 at locations 0..3 followed by a Float2 of the same buffer at location 4
C29_Witness ==
    /\ last.op = "Pipeline::new"
    /\ last.result = "ok"
    /\ [n \in DOMAIN input.attributes |-> input.attributes[n].format] = <<"Mat4", "Float2">>
    /\ \A n \in DOMAIN input.attributes : input.attributes[n].buffer_index = 0
    /\ input.locs = <<Some(0), Some(4)>>
    /\ Unwrap(pipelines[last.arg].layout[4]).offset = 48
    /\ Unwrap(pipelines[last.arg].layout[5]).offset = 64

\* C30: Pipeline construction never rejects a layout because of the naming of
\* its attributes: whatever the attributes and whatever locations the driver
\* gives them, a layout whose strides pass the stride assertion is built and
\* its handle returned, an attribute without a location has no slot entry and
\* every located attribute is recorded at its location.
C30_NamingNeverRejects ==
    ( /\ last.op = "Pipeline::new"
      /\ \A b \in 0..(Len(input.buffer_layout) - 1) : ComputedStride(input, b) <= 255 )
      => /\ last.result = "ok"
         /\ last.arg = Len(pipelines)
         /\ LET pip == pipelines[last.arg]
            IN  /\ \A n \in DOMAIN input.attributes :
                      IsSome(input.locs[n]) =>
                         /\ Unwrap(input.locs[n]) < Len(pip.layout)
                         /\ IsSome(pip.layout[Unwrap(input.locs[n]) + 1])
                         /\ Unwrap(pip.layout[Unwrap(input.locs[n]) + 1]).attr_loc
                               = Unwrap(input.locs[n])
                /\ \A k \in DOMAIN pip.layout :
                      IsSome(pip.layout[k]) =>
                         \E n \in DOMAIN input.attributes :
                            /\ IsSome(input.locs[n])
                            /\ k - 1 \in Unwrap(input.locs[n])..(Unwrap(input.locs[n]) + 3)

\* C31: when the main loop polls a quit event, quit_requested_event is called
\* once and the loop ends: the iteration has no update, draw or present, and
\* afterwards no handler is called and no event polled, whatever arrives.
C31_QuitEndsLoop ==
    [][ /\ ( /\ Len(loop'.polled) = Len(loop.polled) + 1
             /\ \E i \in DOMAIN loop.queue :
                   /\ loop.queue[i].id = loop'.polled[Len(loop'.polled)]
                   /\ loop.queue[i].kind = "Quit" ) =>
             /\ loop'.pc = "exit"
             /\ loop'.frame = loop.frame
                   \o CallsFor(<<"quit_requested_event">>, loop'.polled[Len(loop'.polled)])
             /\ \A i \in DOMAIN loop.frame :
                   loop.frame[i].call \notin {"quit_requested_event", "update", "draw",
                                              "gl_swap_window"}
             /\ loop'.done = loop.done
        /\ loop.pc = "exit" =>
             /\ loop'.pc = "exit"
             /\ loop'.frame = loop.frame
             /\ loop'.polled = loop.polled
             /\ loop'.done = loop.done
             /\ loop'.window_size = loop.window_size ]_vars

\* the loop ended on a quit event that came after another event of the same
\* iteration, with an event that arrived later left in the queue
C31_Witness ==
    /\ loop.pc = "exit"
    /\ Len(loop.frame) = 2
    /\ loop.frame[2].call = "quit_requested_event"
    /\ loop.frames > 0
    /\ loop.queue # <<>>

\* C32: after a handler has called WindowContext::quit the main loop
\* terminates, given that poll_iter hands over the queued events and that the
\* handler callbacks and the present return.
C32_ForcedQuitTerminates == loop.forced ~> (loop.pc = "exit")

\* the loop ended on the quit event a handler queued
C32_Witness ==
    /\ loop.forced
    /\ loop.pc = "exit"
    /\ loop.arrived = 1
    /\ loop.queue = <<>>

----------------------------------------------------------------------------
\* C33: after any sequence of buffer and texture creations, updates,
\* apply_bindings, end_render_pass, commit_frame, Buffer::delete and
\* Texture::delete, the cached vertex buffer, index buffer and per-slot
\* texture handles are the handles bound in the driver, where the driver
\* unbinds a handle when it is deleted.
C33_CacheMatchesDriver ==
    Running =>
       /\ cache.vertex_buffer = glstate.buffer[ARRAY_BUFFER]
       /\ cache.index_buffer = glstate.buffer[ELEMENT_ARRAY_BUFFER]
       /\ \A slot \in DOMAIN cache.textures : cache.textures[slot] = gl.units[slot]

----------------------------------------------------------------------------
\* C34: whenever the cache records a current pipeline, the program in use in
\* the driver is the program of that pipeline's shader, after any interleaving
\* of apply_pipeline with Shader::new and Pipeline creation.
C34_CurrentProgramInUse ==
    (Running /\ cache.cur_pipeline # None)
        => glstate.program = shaders[pipelines[cache.cur_pipeline].shader].program

----------------------------------------------------------------------------
\* C35: in every state reached from a fresh Context through set_blend,
\* set_stencil, set_cull_face and apply_pipeline, blending is enabled in the
\* driver iff the cached color blend is present, the stencil test is enabled
\* iff the cached stencil state is present, and face culling is enabled iff the
\* cached cull face is not Nothing.
C35_CapabilitiesFollowCache ==
    /\ ("BLEND" \in glstate.caps) <=> IsSome(cache.color_blend)
    /\ ("STENCIL_TEST" \in glstate.caps) <=> IsSome(cache.stencil)
    /\ ("CULL_FACE" \in glstate.caps) <=> (cache.cull_face # "Nothing")

\* a set_stencil(None) that disabled the stencil test, while blending and
\* culling are still enabled
C35_Witness ==
    /\ last.op = "set_stencil"
    /\ input.stencil_test = <<>>
    /\ calls = << Call("disable", "STENCIL_TEST", 0) >>
    /\ glstate.caps = {"SCISSOR_TEST", "BLEND", "CULL_FACE"}
    /\ IsSome(cache.color_blend)
    /\ cache.cull_face = "Back"

----------------------------------------------------------------------------
\* C36: Texture::resize(width, height, bytes) redefines the storage of the
\* texture it is called on, whatever is bound to unit 0: after the call the
\* receiver's native texture has the new dimensions, no other texture's
\* storage or contents have changed, and the cached binding of slot 0 is what
\* it was before the call.
C36_ResizeRedefinesReceiver ==
    [][ (last'.op = "Texture::resize" /\ last'.result = "ok") =>
          /\ gl'.image[input'.tex.texture].size = input'.width * input'.height
          /\ \A t \in DOMAIN gl.image \ {input'.tex.texture} : gl'.image[t] = gl.image[t]
          /\ cache'.textures[0] = cache.textures[0] ]_vars

----------------------------------------------------------------------------
\* C37: Context::set_blend called with an alpha blend state and no color blend
\* state fails, issues no native call and leaves the cached blend state as it
\* was; and whatever value Pipeline::set_blend is given, an apply_pipeline of
\* that pipeline that follows succeeds and leaves the cached color blend equal
\* to the value that was set.
C37_BlendNeverAlphaOnly ==
    [][ /\ ( /\ last'.op = "set_blend"
             /\ ~IsSome(input'.color_blend)
             /\ IsSome(input'.alpha_blend) ) =>
               /\ last'.result = "panic"
               /\ calls' = <<>>
               /\ cache'.color_blend = cache.color_blend
               /\ cache'.alpha_blend = cache.alpha_blend
        /\ ( /\ last.op = "Pipeline::set_blend"
             /\ last'.op = "apply_pipeline"
             /\ last'.arg = last.arg ) =>
               /\ last'.result = "ok"
               /\ cache'.color_blend = input.color_blend ]_vars

----------------------------------------------------------------------------
\* C38: over any sequence of Bindings construction, clone and drop,
\* RenderPass::texture, RenderPass::delete, Buffer::delete and Texture::delete
\* in which the caller calls each explicit delete at most once per resource,
\* no native buffer or texture handle is deleted more than once: every native
\* delete names a handle that exists when the call is made.
C38_NoDoubleDelete ==
    [][ \A i \in DOMAIN calls' :
           /\ calls'[i][1] = "delete_buffer" =>
                 /\ calls'[i][3] \in gl.buffers
                 /\ \A j \in 1..(i - 1) : calls'[j] # calls'[i]
           /\ calls'[i][1] = "delete_texture" =>
                 /\ calls'[i][3] \in gl.textures
                 /\ \A j \in 1..(i - 1) : calls'[j] # calls'[i] ]_vars

====
